---- MODULE Spec2Model ----
(***************************************************************************)
(* Zimmeter: session ledger (work_logs) and the session transition         *)
(* handlers of server/src/routes_v2.ts.                                    *)
(*                                                                         *)
(* Spec      requests are processed one at a time: every handler is one    *)
(*           atomic action.                                                *)
(* SpecCatalog  Switch, ManualAdd and Edit one at a time, a category being *)
(*           renamed between the requests.                                 *)
(* SpecConc  requests of several connections interleave at every await of  *)
(*           POST /logs/switch, POST /logs/stop and GET /logs/active; the  *)
(*           database is PostgreSQL at its default READ COMMITTED level.   *)
(* SpecLedger   every operation on one user's entries, the categories      *)
(*           being renamed and deleted between the requests.               *)
(* SpecHistory  GET /logs/history over any small table of work_logs.       *)
(* SpecDay   days of switches ended by a stop, and GET /logs/history.      *)
(* SpecStats GET /logs/stats: one query over a small table of work_logs.   *)
(* SpecTotals   GET /logs/stats: the totals of one query over tables of     *)
(*           open, closed and negative entries of two users.               *)
(* SpecAttend   the attendance records (daily_statuses): leave, resume,    *)
(*           fix and check of one user, one request at a time.             *)
(* SpecAttendConc  leave, resume and fix of several connections interleave *)
(*           at every statement.                                           *)
(* SpecManualStats switches and manual entries of one user, with         *)
(*           GET /logs/history and GET /logs/stats read at any time.       *)
(* SpecDeleteDay   DELETE /logs/:id and GET /logs/history over a table.    *)
(* SpecUsers PUT /users/:id and PATCH /users/:id/status of several         *)
(*           connections, interleaved at every await.                      *)
(***************************************************************************)
EXTENDS Integers, FiniteSets, Sequences, TLC

\* ---------------------------------------------------------------- bounds
MaxTicks == 2
MaxLogs == 2
NumConns == 2
MaxRows == 3
MaxStatRows == 1
MaxShortRange == 33
MaxTotalRows == 2

\* ------------------------------------------------------------- constants
Null == -999999
TickMs == 500
MsPerSec == 1000
Users == {1, 2}
CatIds == {1, 2}
MissingCat == 3
NoCategoryId == 0
Names == {"Mail", "Email"}
RenamedCat == 1
NoTime == -1
Conns == 1..NumConns

\* the instants (ms) at which the clock is read
Instants == {k * TickMs : k \in 0..MaxTicks}
CatInputs == CatIds \cup {MissingCat, NoCategoryId}

VARIABLES ledger, nextId, cats, clock, resp, conn, statuses, users

vars == <<ledger, nextId, cats, clock, resp, conn, statuses, users>>

\* the users table at the start: user 1 is the administrator, user 2 a
\* regular user, both ACTIVE
InitUsers ==
    [u \in Users |-> [role |-> IF u = 1 THEN "ADMIN" ELSE "USER", status |-> "ACTIVE"]]

\* ------------------------------------------------------- storage helpers
NoCategory == [name |-> "", exists |-> FALSE]

FindCategory_Default(c) ==
    IF c \in DOMAIN cats THEN [name |-> cats[c].name, exists |-> TRUE]
    ELSE [name |-> "Mail", exists |-> TRUE]

\* prisma.category.findUnique({ where: { id } })
FindCategory(c) ==
    IF c \in DOMAIN cats THEN [name |-> cats[c].name, exists |-> TRUE]
    ELSE NoCategory

ActiveLogs_AnyUser(L, u) == {e \in L : e.endTime = Null}

\* workLog.findFirst({ where: { userId, endTime: null } }): the rows that match
ActiveLogs(L, u) == {e \in L : e.userId = u /\ e.endTime = Null}

\* findFirst yields one matching row or none: {} or a singleton
FindFirst(rows) == IF rows = {} THEN {{}} ELSE {{e} : e \in rows}

Seconds_Round(ms) == (ms + MsPerSec \div 2) \div MsPerSec

\* Math.floor(ms / 1000)
Seconds(ms) == ms \div MsPerSec

CloseLog_KeepsOpen(e, start, now) == [e EXCEPT !.duration = Seconds(now - start)]

CloseLog_Renames(e, start, now) ==
    [e EXCEPT !.endTime = now, !.duration = Seconds(now - start),
              !.categoryNameSnapshot = cats[e.categoryId].name]

CloseLog_Late(e, start, now) ==
    [e EXCEPT !.endTime = now + TickMs, !.duration = Seconds(now - start)]

CloseLog_MovesStart(e, start, now) ==
    [e EXCEPT !.startTime = now, !.endTime = now, !.duration = Seconds(now - start)]

\* workLog.update({ where: { id }, data: { endTime: now, duration } }), the
\* duration computed from the startTime of the row that findFirst returned
CloseLog(e, start, now) ==
    [e EXCEPT !.endTime = now, !.duration = Seconds(now - start)]

NewLog_Edited(id, u, c, name, now) ==
    [id |-> id, userId |-> u, categoryId |-> c, categoryNameSnapshot |-> name,
     startTime |-> now, endTime |-> Null, duration |-> Null,
     isManual |-> FALSE, isEdited |-> TRUE]

\* workLog.create of POST /logs/switch
NewLog(id, u, c, name, now) ==
    [id |-> id, userId |-> u, categoryId |-> c, categoryNameSnapshot |-> name,
     startTime |-> now, endTime |-> Null, duration |-> Null,
     isManual |-> FALSE, isEdited |-> FALSE]

ManualLog_OneMinute(id, u, c, name, start) ==
    [id |-> id, userId |-> u, categoryId |-> c, categoryNameSnapshot |-> name,
     startTime |-> start, endTime |-> start + 60 * MsPerSec, duration |-> 60,
     isManual |-> TRUE, isEdited |-> FALSE]

ManualLog_Open(id, u, c, name, start) ==
    [id |-> id, userId |-> u, categoryId |-> c, categoryNameSnapshot |-> name,
     startTime |-> start, endTime |-> Null, duration |-> Null,
     isManual |-> TRUE, isEdited |-> FALSE]

\* workLog.create of POST /logs/manual
ManualLog(id, u, c, name, start) ==
    [id |-> id, userId |-> u, categoryId |-> c, categoryNameSnapshot |-> name,
     startTime |-> start, endTime |-> start, duration |-> 0,
     isManual |-> TRUE, isEdited |-> FALSE]

EditLog_Unflagged(e, c, name) ==
    [e EXCEPT !.categoryId = c, !.categoryNameSnapshot = name]

EditLog_Reopens(e, c, name) ==
    [e EXCEPT !.categoryId = c, !.categoryNameSnapshot = name,
              !.isEdited = TRUE, !.endTime = Null, !.duration = Null]

\* workLog.update of PATCH /logs/:id
EditLog(e, c, name) ==
    [e EXCEPT !.categoryId = c, !.categoryNameSnapshot = name, !.isEdited = TRUE]

NotBefore_Strict(now, start) == now < start

\* now.getTime() <= start.getTime()
NotBefore(now, start) == now <= start

Role_AllAdmin(u) == "ADMIN"

\* currentUser.role
Role(u) == users[u].role

\* res.status(status).json(body), the last response sent. error is the error
\* text of a failure; id is the id of the entry in the body (0: no entry);
\* repeat tells that the response answers a stop which directly follows a
\* successful stop of the same user.
Reply(op, u, status, error, id) ==
    [op |-> op, user |-> u, status |-> status, error |-> error, id |-> id,
     repeat |-> (op = "stop" /\ resp.op = "stop" /\ resp.user = u /\ resp.status = 200)]

IdleConn == [pc |-> "idle", op |-> "none", user |-> 0, categoryId |-> 0,
             name |-> "", now |-> 0, active |-> {}, status |-> 0]

Init ==
    /\ ledger = {}
    /\ nextId = 1
    /\ cats = [c \in CatIds |-> [name |-> IF c = 1 THEN "Mail" ELSE "Meeting",
                                 isDeleted |-> FALSE]]
    /\ clock = 0
    /\ statuses = {}
    /\ users = InitUsers
    /\ resp = [op |-> "none", user |-> 0, status |-> 0, error |-> "", id |-> 0,
               repeat |-> FALSE]
    /\ conn = [p \in Conns |-> IdleConn]

\* ------------------------------------------------ environment and catalog
\* time passes between two requests (new Date() reads the clock)
Tick ==
    /\ clock + TickMs \in Instants
    /\ clock' = clock + TickMs
    /\ UNCHANGED <<ledger, nextId, cats, resp, conn, statuses, users>>

RenameCategory_Cascade(c, name) ==
    /\ c \in DOMAIN cats
    /\ cats[c].name # name
    /\ cats' = [cats EXCEPT ![c].name = name]
    /\ ledger' = {IF e.categoryId = c THEN [e EXCEPT !.categoryNameSnapshot = name] ELSE e :
                    e \in ledger}
    /\ UNCHANGED <<nextId, clock, resp, conn, statuses, users>>

\* PUT /categories/:id with a name, by a caller who passes the permission check
RenameCategory(c, name) ==
    /\ c \in DOMAIN cats
    /\ cats[c].name # name
    /\ cats' = [cats EXCEPT ![c].name = name]
    /\ UNCHANGED <<ledger, nextId, clock, resp, conn, statuses, users>>

\* DELETE /categories/:id by a caller who passes the permission check: the
\* category row stays, flagged as deleted
DeleteCategory(c) ==
    /\ c \in DOMAIN cats
    /\ cats' = [cats EXCEPT ![c].isDeleted = TRUE]
    /\ UNCHANGED <<ledger, nextId, clock, resp, conn, statuses, users>>

\* ------------------------------------- handlers, one request at a time
\* POST /logs/switch
Switch(u, c) ==
    LET now == clock
        category == FindCategory(c)
    IN  /\ UNCHANGED <<cats, clock, conn, statuses, users>>
        /\ IF c = NoCategoryId
           THEN /\ resp' = Reply("switch", u, 400, "Missing categoryId", 0)
                /\ UNCHANGED <<ledger, nextId>>
           ELSE IF ~category.exists
           THEN /\ resp' = Reply("switch", u, 404, "Category not found", 0)
                /\ UNCHANGED <<ledger, nextId>>
           ELSE /\ nextId <= MaxLogs
                /\ \E activeLog \in FindFirst(ActiveLogs(ledger, u)) :
                     LET newLog == NewLog(nextId, u, c, category.name, now)
                         closed == {CloseLog(e, e.startTime, now) : e \in activeLog}
                     IN  /\ ledger' = ((ledger \ activeLog) \cup closed) \cup {newLog}
                         /\ nextId' = nextId + 1
                         /\ resp' = Reply("switch", u, 200, "", newLog.id)

\* POST /logs/stop
Stop(u) ==
    LET now == clock
    IN  /\ UNCHANGED <<nextId, cats, clock, conn, statuses, users>>
        /\ \E activeLog \in FindFirst(ActiveLogs(ledger, u)) :
             IF activeLog = {}
             THEN /\ resp' = Reply("stop", u, 404, "No active log found", 0)
                  /\ UNCHANGED ledger
             ELSE \E e \in activeLog :
                    /\ ledger' = (ledger \ {e}) \cup {CloseLog(e, e.startTime, now)}
                    /\ resp' = Reply("stop", u, 200, "", e.id)

\* POST /logs/manual
ManualAdd(u, c, start) ==
    LET now == clock
        category == FindCategory(c)
    IN  /\ UNCHANGED <<cats, clock, conn, statuses, users>>
        /\ IF c = NoCategoryId \/ start = NoTime
           THEN /\ resp' = Reply("manual", u, 400, "Missing categoryId/startTime", 0)
                /\ UNCHANGED <<ledger, nextId>>
           ELSE IF NotBefore(now, start)
           THEN /\ resp' = Reply("manual", u, 400, "startTime must be before current time", 0)
                /\ UNCHANGED <<ledger, nextId>>
           ELSE IF ~category.exists
           THEN /\ resp' = Reply("manual", u, 404, "Category not found", 0)
                /\ UNCHANGED <<ledger, nextId>>
           ELSE /\ nextId <= MaxLogs
                /\ LET created == ManualLog(nextId, u, c, category.name, start)
                   IN  /\ ledger' = ledger \cup {created}
                       /\ nextId' = nextId + 1
                       /\ resp' = Reply("manual", u, 200, "", created.id)

\* PATCH /logs/:id
Edit(actor, id, c) ==
    LET log == {e \in ledger : e.id = id}
        category == FindCategory(c)
    IN  /\ UNCHANGED <<nextId, cats, clock, conn, statuses, users>>
        /\ IF log = {}
           THEN /\ resp' = Reply("edit", actor, 404, "Log not found", 0)
                /\ UNCHANGED ledger
           ELSE IF \E e \in log : e.userId # actor /\ Role(actor) # "ADMIN"
           THEN /\ resp' = Reply("edit", actor, 403, "Forbidden", 0)
                /\ UNCHANGED ledger
           ELSE IF ~category.exists
           THEN /\ resp' = Reply("edit", actor, 404, "Category not found", 0)
                /\ UNCHANGED ledger
           ELSE \E e \in log :
                  /\ ledger' = (ledger \ {e}) \cup {EditLog(e, c, category.name)}
                  /\ resp' = Reply("edit", actor, 200, "", e.id)

Delete_Keeps(actor, id) ==
    LET log == {e \in ledger : e.id = id}
    IN  /\ UNCHANGED <<nextId, cats, clock, conn, statuses, users>>
        /\ IF log = {}
           THEN /\ resp' = Reply("delete", actor, 404, "Log not found", 0)
                /\ UNCHANGED ledger
           ELSE IF \E e \in log : e.userId # actor /\ Role(actor) # "ADMIN"
           THEN /\ resp' = Reply("delete", actor, 403, "Forbidden", 0)
                /\ UNCHANGED ledger
           ELSE /\ ledger' = ledger
                /\ resp' = Reply("delete", actor, 200, "", 0)

\* DELETE /logs/:id
Delete(actor, id) ==
    LET log == {e \in ledger : e.id = id}
    IN  /\ UNCHANGED <<nextId, cats, clock, conn, statuses, users>>
        /\ IF log = {}
           THEN /\ resp' = Reply("delete", actor, 404, "Log not found", 0)
                /\ UNCHANGED ledger
           ELSE IF \E e \in log : e.userId # actor /\ Role(actor) # "ADMIN"
           THEN /\ resp' = Reply("delete", actor, 403, "Forbidden", 0)
                /\ UNCHANGED ledger
           ELSE /\ ledger' = ledger \ log
                /\ resp' = Reply("delete", actor, 200, "", 0)

SwitchReq == \E u \in Users, c \in CatInputs : Switch(u, c)
StopReq == \E u \in Users : Stop(u)
ManualAddReq == \E u \in Users, c \in CatInputs, t \in Instants \cup {NoTime} : ManualAdd(u, c, t)
EditReq == \E a \in Users, id \in 1..MaxLogs + 1, c \in CatIds \cup {MissingCat} : Edit(a, id, c)
DeleteReq == \E a \in Users, id \in 1..MaxLogs + 1 : Delete(a, id)
RenameReq == \E n \in Names : RenameCategory(RenamedCat, n)

Next ==
    \/ Tick
    \/ SwitchReq
    \/ StopReq
    \/ ManualAddReq
    \/ EditReq
    \/ DeleteReq

Spec == Init /\ [][Next]_vars

NextCatalog ==
    \/ Tick
    \/ RenameReq
    \/ SwitchReq
    \/ ManualAddReq
    \/ EditReq

SpecCatalog == Init /\ [][NextCatalog]_vars

DeleteCategoryReq == \E c \in CatIds : DeleteCategory(c)

\* the user whose requests SpecLedger follows
LedgerUser == 1

LedgerSwitchReq == \E c \in CatInputs : Switch(LedgerUser, c)
LedgerStopReq == Stop(LedgerUser)
LedgerManualAddReq ==
    \E c \in CatInputs, t \in Instants \cup {NoTime} : ManualAdd(LedgerUser, c, t)
LedgerEditReq ==
    \E id \in 1..MaxLogs + 1, c \in CatIds \cup {MissingCat} : Edit(LedgerUser, id, c)
LedgerDeleteReq == \E id \in 1..MaxLogs + 1 : Delete(LedgerUser, id)

\* every operation on one user's entries and on the category catalogue
NextLedger ==
    \/ Tick
    \/ RenameReq
    \/ DeleteCategoryReq
    \/ LedgerSwitchReq
    \/ LedgerStopReq
    \/ LedgerManualAddReq
    \/ LedgerEditReq
    \/ LedgerDeleteReq

SpecLedger == Init /\ [][NextLedger]_vars

\* --------------------------- handlers, interleaved at their awaits
\* the row lock an uncommitted workLog.update of a transaction holds
Locked(id) ==
    \E q \in Conns : conn[q].pc = "sw_create" /\ id \in {e.id : e \in conn[q].active}

\* the response is sent: the connection is free for the next request
Finish(p) ==
    conn' = [conn EXCEPT ![p] = IdleConn]

InSwitch == {q \in Conns : conn[q].pc \in {"sw_find", "sw_close", "sw_create"}}

\* POST /logs/switch up to the start of the transaction: now, category lookup
SwitchStart(p, u, c) ==
    LET category == FindCategory(c)
    IN  /\ conn[p].pc = "idle"
        /\ UNCHANGED <<ledger, nextId, cats, clock, statuses, users>>
        /\ IF c = NoCategoryId
           THEN /\ resp' = Reply("switch", u, 400, "Missing categoryId", 0)
                /\ Finish(p)
           ELSE IF ~category.exists
           THEN /\ resp' = Reply("switch", u, 404, "Category not found", 0)
                /\ Finish(p)
           ELSE /\ nextId + Cardinality(InSwitch) <= MaxLogs
                /\ conn' = [conn EXCEPT ![p] =
                      [pc |-> "sw_find", op |-> "switch", user |-> u, categoryId |-> c,
                       name |-> category.name, now |-> clock, active |-> {}, status |-> 0]]
                /\ UNCHANGED resp

\* tx.workLog.findFirst: reads the committed rows
SwitchFind(p) ==
    /\ conn[p].pc = "sw_find"
    /\ \E activeLog \in FindFirst(ActiveLogs(ledger, conn[p].user)) :
         conn' = [conn EXCEPT ![p].active = activeLog,
                              ![p].pc = IF activeLog = {} THEN "sw_create" ELSE "sw_close"]
    /\ UNCHANGED <<ledger, nextId, cats, clock, resp, statuses, users>>

SwitchClose_Direct(p) ==
    /\ conn[p].pc = "sw_close"
    /\ \E e \in conn[p].active :
         /\ ~Locked(e.id)
         /\ ledger' = {IF r.id = e.id THEN CloseLog(r, e.startTime, conn[p].now) ELSE r
                         : r \in ledger}
    /\ conn' = [conn EXCEPT ![p].pc = "sw_create"]
    /\ UNCHANGED <<nextId, cats, clock, resp, statuses, users>>

\* tx.workLog.update: takes the row lock; the write stays in the transaction
SwitchClose(p) ==
    /\ conn[p].pc = "sw_close"
    /\ \E e \in conn[p].active : ~Locked(e.id)
    /\ conn' = [conn EXCEPT ![p].pc = "sw_create"]
    /\ UNCHANGED <<ledger, nextId, cats, clock, resp, statuses, users>>

\* tx.workLog.create and the commit: the writes of the transaction reach the
\* ledger together
SwitchCreate(p) ==
    LET c == conn[p]
        newLog == NewLog(nextId, c.user, c.categoryId, c.name, c.now)
        closedIds == {e.id : e \in c.active}
        startOf(id) == CHOOSE t \in {e.startTime : e \in c.active} : TRUE
    IN  /\ c.pc = "sw_create"
        /\ ledger' = {IF r.id \in closedIds THEN CloseLog(r, startOf(r.id), c.now) ELSE r
                        : r \in ledger} \cup {newLog}
        /\ nextId' = nextId + 1
        /\ resp' = Reply("switch", c.user, 200, "", newLog.id)
        /\ Finish(p)
        /\ UNCHANGED <<cats, clock, statuses, users>>

\* a statement of the transaction throws: rollback, catch, 500. id is the
\* entry the transaction had closed (0: none yet)
SwitchFail(p) ==
    LET c == conn[p]
        closedId == IF c.pc = "sw_create" /\ c.active # {}
                    THEN CHOOSE i \in {e.id : e \in c.active} : TRUE ELSE 0
    IN  /\ c.pc \in {"sw_find", "sw_close", "sw_create"}
        /\ resp' = Reply("switch", c.user, 500, "Failed to switch task", closedId)
        /\ Finish(p)
        /\ UNCHANGED <<ledger, nextId, cats, clock, statuses, users>>

\* POST /logs/stop: now
StopStart(p, u) ==
    /\ conn[p].pc = "idle"
    /\ conn' = [conn EXCEPT ![p] =
          [pc |-> "st_find", op |-> "stop", user |-> u, categoryId |-> 0,
           name |-> "", now |-> clock, active |-> {}, status |-> 0]]
    /\ UNCHANGED <<ledger, nextId, cats, clock, resp, statuses, users>>

\* prisma.workLog.findFirst
StopFind(p) ==
    /\ conn[p].pc = "st_find"
    /\ UNCHANGED <<ledger, nextId, cats, clock, statuses, users>>
    /\ \E activeLog \in FindFirst(ActiveLogs(ledger, conn[p].user)) :
         IF activeLog = {}
         THEN /\ resp' = Reply("stop", conn[p].user, 404, "No active log found", 0)
              /\ Finish(p)
         ELSE /\ conn' = [conn EXCEPT ![p].active = activeLog, ![p].pc = "st_update"]
              /\ UNCHANGED resp

\* prisma.workLog.update, outside any transaction: waits for the row lock
StopUpdate(p) ==
    /\ conn[p].pc = "st_update"
    /\ \E e \in conn[p].active :
         /\ ~Locked(e.id)
         /\ ledger' = {IF r.id = e.id THEN CloseLog(r, e.startTime, conn[p].now) ELSE r
                         : r \in ledger}
         /\ resp' = Reply("stop", conn[p].user, 200, "", e.id)
    /\ Finish(p)
    /\ UNCHANGED <<nextId, cats, clock, statuses, users>>

\* GET /logs/active
GetActive(p, u) ==
    /\ conn[p].pc = "idle"
    /\ \E activeLog \in FindFirst(ActiveLogs(ledger, u)) :
         resp' = Reply("active", u, 200, "",
                       IF activeLog = {} THEN 0 ELSE CHOOSE i \in {e.id : e \in activeLog} : TRUE)
    /\ Finish(p)
    /\ UNCHANGED <<ledger, nextId, cats, clock, statuses, users>>

NextConc ==
    \/ Tick
    \/ \E p \in Conns, u \in Users, c \in CatIds \cup {MissingCat} : SwitchStart(p, u, c)
    \/ \E p \in Conns : SwitchFind(p)
    \/ \E p \in Conns : SwitchClose(p)
    \/ \E p \in Conns : SwitchCreate(p)
    \/ \E p \in Conns : SwitchFail(p)
    \/ \E p \in Conns, u \in Users : StopStart(p, u)
    \/ \E p \in Conns : StopFind(p)
    \/ \E p \in Conns : StopUpdate(p)
    \/ \E p \in Conns, u \in Users : GetActive(p, u)

SpecConc == Init /\ [][NextConc]_vars

\* ------------------------------------------------- history of the day
\* 9 * 60 * 60 * 1000
JstOffsetMs == 32400000
\* one day in ms (setUTCHours(0, 0, 0, 0) cuts to a multiple of it)
DayMs == 86400000

\* start of today (00:00 JST) as GET /logs/history computes it
Today(now) == ((now + JstOffsetMs) \div DayMs) * DayMs - JstOffsetMs

\* an instant of the day before the day of instant 0
Yesterday == Today(0) - TickMs

\* workLog.findMany({ where: { userId, startTime: { gte: today } } })
FindManyToday(L, u, today) == {e \in L : e.userId = u /\ e.startTime >= today}

\* orderBy: { startTime: 'asc' }: the orders in which the database may
\* return the rows; rows of equal startTime come in any order
OrderByStartTime(rows) ==
    {s \in [1..Cardinality(rows) -> rows] :
        \A i, j \in 1..Cardinality(rows) :
            i < j => s[i] # s[j] /\ s[i].startTime <= s[j].startTime}

Reconstruct_Stored(logs) ==
    [i \in 1..Len(logs) |->
        IF logs[i].endTime # Null \/ i = Len(logs)
        THEN logs[i]
        ELSE [logs[i] EXCEPT !.endTime = logs[i + 1].startTime,
                             !.duration = Seconds(logs[i + 1].startTime - logs[i].startTime)]]

Reconstruct_LastRecomputed(logs) ==
    [i \in 1..Len(logs) |->
        IF i < Len(logs)
        THEN [logs[i] EXCEPT !.endTime = logs[i + 1].startTime,
                             !.duration = Seconds(logs[i + 1].startTime - logs[i].startTime)]
        ELSE IF logs[i].endTime # Null
        THEN [logs[i] EXCEPT !.duration = Seconds(logs[i].endTime - logs[i].startTime)]
        ELSE logs[i]]

\* logs.map((log, index) => ...): an entry that has a next entry ends where
\* the next one starts; the last entry keeps its stored end, its duration
\* computed when the row has none; an open last entry is returned as it is
Reconstruct(logs) ==
    [i \in 1..Len(logs) |->
        IF i < Len(logs)
        THEN [logs[i] EXCEPT !.endTime = logs[i + 1].startTime,
                             !.duration = Seconds(logs[i + 1].startTime - logs[i].startTime)]
        ELSE IF logs[i].endTime # Null
        THEN [logs[i] EXCEPT !.duration = IF logs[i].duration # Null THEN logs[i].duration
                                          ELSE Seconds(logs[i].endTime - logs[i].startTime)]
        ELSE logs[i]]

\* updatedLogs.reverse()
Reverse(s) == [i \in 1..Len(s) |-> s[Len(s) + 1 - i]]

\* GET /logs/history: the response carries the list, newest entry first
GetHistory(u) ==
    /\ \E logs \in OrderByStartTime(FindManyToday(ledger, u, Today(clock))) :
         resp' = [body |-> Reverse(Reconstruct(logs))] @@ Reply("history", u, 200, "", 0)
    /\ UNCHANGED <<ledger, nextId, cats, clock, conn, statuses, users>>

GetHistoryReq == \E u \in Users : GetHistory(u)

\* HistoryModal: todayLogs = logs.filter(...) over the response of GET
\* /logs/history: a closed entry of duration 0 is not shown, nor an entry of
\* another day than today (no category filter chosen; the client is in JST)
TodayLogs(logs, now) ==
    SelectSeq(logs, LAMBDA log :
        /\ ~(log.endTime # Null /\ (IF log.duration = Null THEN 0 ELSE log.duration) = 0)
        /\ Today(log.startTime) = Today(now))

\* the rows of work_logs that SpecHistory starts from: any user, a start
\* yesterday or today, open or closed at or after the start, a closed row
\* with any stored duration or with none; a manual row is closed at its
\* start with duration 0
RowShapes ==
    {r \in [userId : Users, startTime : {Yesterday} \cup Instants,
            endTime : Instants \cup {Null}, duration : {Null, 0, 1},
            isManual : BOOLEAN] :
        /\ r.endTime = Null => r.duration = Null
        /\ r.endTime # Null => r.endTime >= r.startTime
        /\ r.isManual => r.endTime = r.startTime /\ r.duration = 0}

Row(i, r) ==
    [id |-> i, userId |-> r.userId, categoryId |-> 1, categoryNameSnapshot |-> "Mail",
     startTime |-> r.startTime, endTime |-> r.endTime, duration |-> r.duration,
     isManual |-> r.isManual, isEdited |-> FALSE]

\* a table of at most MaxRows rows, read at the end of the modelled period
InitHistory ==
    /\ \E n \in 0..MaxRows : \E f \in [1..n -> RowShapes] :
          /\ ledger = {Row(i, f[i]) : i \in 1..n}
          /\ nextId = n + 1
    /\ cats = [c \in CatIds |-> [name |-> IF c = 1 THEN "Mail" ELSE "Meeting",
                                 isDeleted |-> FALSE]]
    /\ clock = MaxTicks * TickMs
    /\ statuses = {}
    /\ users = InitUsers
    /\ resp = [op |-> "none", user |-> 0, status |-> 0, error |-> "", id |-> 0,
               repeat |-> FALSE]
    /\ conn = [p \in Conns |-> IdleConn]

SpecHistory == InitHistory /\ [][GetHistoryReq]_vars

\* a table of at most MaxRows rows of LedgerUser
InitOwnHistory ==
    /\ InitHistory
    /\ \A e \in ledger : e.userId = LedgerUser

\* the user deletes entries of the table and reads the history
NextDeleteDay ==
    \/ \E id \in 1..MaxRows + 1 : Delete(LedgerUser, id)
    \/ GetHistory(LedgerUser)

SpecDeleteDay == InitOwnHistory /\ [][NextDeleteDay]_vars

\* ------------------------------------------------------ aggregated stats
\* Dates are day numbers (days since 1970-01-01): a "YYYY-MM-DD" text and
\* its day number stand for each other. A zone is the offset in ms of the
\* server's local time from UTC. The instants of the computation (Date
\* values read with getTime()) are kept exact as day and ms of the day (UTC),
\* ms in 0..DayMs - 1.
Wide(t) == [day |-> t \div DayMs, ms |-> t % DayMs]

\* the instant delta ms after w
Shift(w, delta) ==
    [day |-> w.day + (w.ms + delta) \div DayMs, ms |-> (w.ms + delta) % DayMs]

\* a.getTime() - b.getTime()
Diff(a, b) ==
    [day |-> a.day - b.day + (a.ms - b.ms) \div DayMs, ms |-> (a.ms - b.ms) % DayMs]

\* Math.abs(d)
Abs(d) ==
    IF d.day >= 0 THEN d
    ELSE IF d.ms = 0 THEN [day |-> -d.day, ms |-> 0]
    ELSE [day |-> -d.day - 1, ms |-> DayMs - d.ms]

CeilDays_Floor(d) == d.day

\* Math.ceil(d / (1000 * 60 * 60 * 24))
CeilDays(d) == d.day + (IF d.ms > 0 THEN 1 ELSE 0)

\* Math.floor(d / (1000 * 60 * 60 * 24))
FloorDays(d) == d.day

\* a <= b
NotAfter(a, b) == a.day < b.day \/ (a.day = b.day /\ a.ms <= b.ms)

RoundDiv_Floor(a, b) == a \div b

\* Math.round(a / b) for b > 0 (a half rounds up)
RoundDiv(a, b) == (2 * a + b) \div (2 * b)

\* new Date("YYYY-MM-DD"): the midnight of the date in UTC
ParseDate(day) == [day |-> day, ms |-> 0]

\* the local calendar day of an instant
LocalDay(w, zone) == Shift(w, zone).day

\* setHours(0, 0, 0, 0)
StartOfLocalDay(w, zone) == Shift([day |-> LocalDay(w, zone), ms |-> 0], -zone)

\* setHours(23, 59, 59, 999)
EndOfLocalDay(w, zone) == Shift(StartOfLocalDay(w, zone), DayMs - 1)

\* the civil date of a day number, in the proleptic Gregorian calendar;
\* month is 0..11 as getMonth() gives it
CivilOf(n) ==
    LET z == n + 719468
        era == z \div 146097
        doe == z - era * 146097
        yoe == (doe - doe \div 1460 + doe \div 36524 - doe \div 146096) \div 365
        doy == doe - (365 * yoe + yoe \div 4 - yoe \div 100)
        mp == (5 * doy + 2) \div 153
        m == IF mp < 10 THEN mp + 3 ELSE mp - 9
    IN  [year |-> yoe + era * 400 + (IF m <= 2 THEN 1 ELSE 0),
         month |-> m - 1,
         date |-> doy - (153 * mp + 2) \div 5 + 1]

\* the day number of the civil date y-(m+1)-d; a month outside 0..11 rolls
\* over into the years as new Date(y, m, d) does
DayOfCivil(y, m, d) ==
    LET yy == y + m \div 12
        mm == (m % 12) + 1
        yc == IF mm <= 2 THEN yy - 1 ELSE yy
        era == yc \div 400
        yoe == yc - era * 400
        doy == (153 * (IF mm > 2 THEN mm - 3 ELSE mm + 9) + 2) \div 5 + d - 1
        doe == yoe * 365 + yoe \div 4 - yoe \div 100 + doy
    IN  era * 146097 + doe - 719468

GetFullYear(w, zone) == CivilOf(LocalDay(w, zone)).year
GetMonth(w, zone) == CivilOf(LocalDay(w, zone)).month
\* getDay(): 0 is Sunday; 1970-01-01 was a Thursday
GetDay(w, zone) == (LocalDay(w, zone) + 4) % 7

\* new Date(y, m, d, 0, 0, 0, 0)
LocalDate(y, m, d, zone) == Shift([day |-> DayOfCivil(y, m, d), ms |-> 0], -zone)

\* d.toISOString().slice(0, 10): the date of the instant in UTC
IsoDate(w) == w.day

\* setDate(getDate() + k)
AddDays(w, k) == [day |-> w.day + k, ms |-> w.ms]

NoDate == -1
StatModes == {"day", "week", "month", "year", "custom"}

\* rangeStart, rangeEnd, bucketMode and bucketCount of GET /logs/stats
StatsRange(mode, start, end, now, zone) ==
    IF mode = "custom"
    THEN LET rangeStart == StartOfLocalDay(ParseDate(start), zone)
             rangeEnd == EndOfLocalDay(ParseDate(end), zone)
             diffTime == Abs(Diff(rangeEnd, rangeStart))
             diffDays == CeilDays(diffTime)
             months == (GetFullYear(rangeEnd, zone) - GetFullYear(rangeStart, zone)) * 12
                       + (GetMonth(rangeEnd, zone) - GetMonth(rangeStart, zone))
             years == GetFullYear(rangeEnd, zone) - GetFullYear(rangeStart, zone)
         IN  [rangeStart |-> rangeStart, rangeEnd |-> rangeEnd,
              bucketMode |-> IF diffDays <= 31 THEN "day"
                             ELSE IF diffDays <= 366 THEN "month" ELSE "year",
              bucketCount |-> IF diffDays <= 31 THEN diffDays + 1
                              ELSE IF diffDays <= 366 THEN months + 1 ELSE years + 1]
    ELSE IF mode = "day"
    THEN [rangeStart |-> StartOfLocalDay(AddDays(now, -29), zone), rangeEnd |-> now,
          bucketMode |-> "day", bucketCount |-> 30]
    ELSE IF mode = "week"
    THEN LET diffToMonday == (GetDay(now, zone) + 6) % 7
         IN  [rangeStart |-> AddDays(StartOfLocalDay(AddDays(now, -diffToMonday), zone), -77),
              rangeEnd |-> now, bucketMode |-> "week", bucketCount |-> 12]
    ELSE IF mode = "month"
    THEN [rangeStart |-> LocalDate(GetFullYear(now, zone), GetMonth(now, zone) - 11, 1, zone),
          rangeEnd |-> now, bucketMode |-> "month", bucketCount |-> 12]
    ELSE [rangeStart |-> LocalDate(GetFullYear(now, zone) - 4, 0, 1, zone),
          rangeEnd |-> now, bucketMode |-> "year", bucketCount |-> 5]

\* the label of bucket i (from 0). A day label is the day number of its
\* "YYYY-MM-DD"; a week label "YYYY-Wnn" is YYYY * 100 + nn; a month label
\* "YYYY-MM" is YYYY * 12 + MM - 1; a year label is the year
BucketLabel(r, i, zone) ==
    IF r.bucketMode = "day" THEN IsoDate(AddDays(r.rangeStart, i))
    ELSE IF r.bucketMode = "week"
    THEN GetFullYear(AddDays(r.rangeStart, i * 7), zone) * 100 + i + 1
    ELSE IF r.bucketMode = "month"
    THEN GetFullYear(r.rangeStart, zone) * 12 + GetMonth(r.rangeStart, zone) + i
    ELSE GetFullYear(r.rangeStart, zone) + i

\* log.duration ?? (log.endTime ? Math.floor((endTime - startTime) / 1000) : 0)
DurationSec_OpenCounts(log) ==
    IF log.duration # Null THEN log.duration
    ELSE IF log.endTime # Null THEN Seconds(log.endTime - log.startTime)
    ELSE 60

DurationSec(log) ==
    IF log.duration # Null THEN log.duration
    ELSE IF log.endTime # Null THEN Seconds(log.endTime - log.startTime)
    ELSE 0

BucketIndex_SkipsLast(log, r, zone) ==
    LET start == Wide(log.startTime)
        diffDays == FloorDays(Diff(start, r.rangeStart))
        diff == IF r.bucketMode = "day" THEN diffDays
                ELSE IF r.bucketMode = "week" THEN diffDays \div 7
                ELSE IF r.bucketMode = "month"
                THEN (GetFullYear(start, zone) - GetFullYear(r.rangeStart, zone)) * 12
                     + (GetMonth(start, zone) - GetMonth(r.rangeStart, zone))
                ELSE GetFullYear(start, zone) - GetFullYear(r.rangeStart, zone)
    IN  IF diff >= 0 /\ diff < r.bucketCount - 1 THEN diff ELSE -1

BucketIndex_First(log, r, zone) == 0

\* bucketIndex of a log, -1 when it falls in no bucket
BucketIndex(log, r, zone) ==
    LET start == Wide(log.startTime)
        diffDays == FloorDays(Diff(start, r.rangeStart))
        diff == IF r.bucketMode = "day" THEN diffDays
                ELSE IF r.bucketMode = "week" THEN diffDays \div 7
                ELSE IF r.bucketMode = "month"
                THEN (GetFullYear(start, zone) - GetFullYear(r.rangeStart, zone)) * 12
                     + (GetMonth(start, zone) - GetMonth(r.rangeStart, zone))
                ELSE GetFullYear(start, zone) - GetFullYear(r.rangeStart, zone)
    IN  IF diff >= 0 /\ diff < r.bucketCount THEN diff ELSE -1

FindManyInRange_FirstUser(L, targetIds, r) ==
    {e \in L : /\ \A u \in targetIds : e.userId <= u
               /\ NotAfter(r.rangeStart, Wide(e.startTime))
               /\ NotAfter(Wide(e.startTime), r.rangeEnd)}

\* workLog.findMany({ where: { userId: { in: targetIds },
\*                             startTime: { gte: rangeStart, lte: rangeEnd } } })
FindManyInRange(L, targetIds, r) ==
    {e \in L : /\ e.userId \in targetIds
               /\ NotAfter(r.rangeStart, Wide(e.startTime))
               /\ NotAfter(Wide(e.startTime), r.rangeEnd)}

RECURSIVE TotalSeconds(_)
\* the sum that the loop over the logs adds up, over the logs of a set
TotalSeconds(logs) ==
    IF logs = {} THEN 0
    ELSE LET log == CHOOSE e \in logs : TRUE
         IN  DurationSec(log) + TotalSeconds(logs \ {log})

\* log.categoryNameSnapshot || 'Unknown'
CatName(log) == IF log.categoryNameSnapshot = "" THEN "Unknown" ELSE log.categoryNameSnapshot

\* the logs of the query that pass "if (!durationSec) continue"
CountedLogs(L, targetIds, r) ==
    {e \in FindManyInRange(L, targetIds, r) : DurationSec(e) # 0}

\* buckets[i].totalSeconds after the loop (i from 0)
BucketSeconds(L, targetIds, r, zone, i) ==
    TotalSeconds({e \in CountedLogs(L, targetIds, r) : BucketIndex(e, r, zone) = i})

\* byCategory[n] after the loop
CategorySeconds(L, targetIds, r, n) ==
    TotalSeconds({e \in CountedLogs(L, targetIds, r) : CatName(e) = n})

\* { timeSeries, byCategory } of the response
StatsBody(L, targetIds, r, zone) ==
    [bucketMode |-> r.bucketMode,
     timeSeries |->
        [i \in 1..r.bucketCount |->
            [label |-> BucketLabel(r, i - 1, zone),
             totalMinutes |-> RoundDiv(BucketSeconds(L, targetIds, r, zone, i - 1), 60)]],
     byCategory |->
        [n \in {CatName(e) : e \in CountedLogs(L, targetIds, r)} |->
            RoundDiv(CategorySeconds(L, targetIds, r, n), 60)]]

NoStats == [bucketMode |-> "", timeSeries |-> <<>>, byCategory |-> <<>>]

\* the response of GET /logs/stats together with the query it answers
StatsReply(actor, targetIds, mode, start, end, zone, status, error, body) ==
    [req |-> [targetIds |-> targetIds, mode |-> mode, start |-> start, end |-> end,
              zone |-> zone],
     body |-> body] @@ Reply("stats", actor, status, error, 0)

\* GET /logs/stats, the query that connection p holds, on a server whose
\* local time is zone ms ahead of UTC
GetStats(p) ==
    LET q == conn[p]
        r == StatsRange(q.mode, q.start, q.end, Wide(clock), q.zone)
        Answer(status, error, body) ==
            StatsReply(q.user, q.targetIds, q.mode, q.start, q.end, q.zone,
                       status, error, body)
    IN  /\ q.pc = "stats"
        /\ resp' =
             IF Role(q.user) # "ADMIN" THEN Answer(403, "Admin only", NoStats)
             ELSE IF q.targetIds = {} \/ q.mode = ""
             THEN Answer(400, "Missing userId(s) or mode", NoStats)
             ELSE IF q.mode \notin StatModes THEN Answer(400, "Invalid mode", NoStats)
             ELSE IF q.mode = "custom" /\ (q.start = NoDate \/ q.end = NoDate)
             THEN Answer(400, "Missing start or end date for custom mode", NoStats)
             ELSE Answer(200, "", StatsBody(ledger, q.targetIds, r, q.zone))
        /\ Finish(p)
        /\ UNCHANGED <<ledger, nextId, cats, clock, statuses, users>>

\* the zones of the server: UTC and JST
ServerZones == {0, JstOffsetMs}
\* the first days of the custom ranges: 1970-01-01 and 1970-01-15
StatStarts == {0, 14}
\* the days from the first to the last day of a custom range; a negative
\* one is a range whose end lies before its start
RangeLengths == (-2..MaxShortRange) \cup {99, 364, 365, 366, 799}

StatsQuery(actor, targetIds, mode, start, end, zone) ==
    [pc |-> "stats", op |-> "stats", user |-> actor, targetIds |-> targetIds,
     mode |-> mode, start |-> start, end |-> end, zone |-> zone]

\* the queries a connection may hold: mode=custom with start and end, with
\* no end, the fixed windows, no mode and an unknown mode
StatsQueries ==
    {StatsQuery(actor, targetIds, "custom", start, start + len, zone) :
        actor \in Users, targetIds \in SUBSET Users, start \in StatStarts,
        len \in RangeLengths, zone \in ServerZones}
    \cup
    {StatsQuery(actor, targetIds, "custom", start, NoDate, zone) :
        actor \in Users, targetIds \in SUBSET Users, start \in StatStarts,
        zone \in ServerZones}
    \cup
    {StatsQuery(actor, targetIds, mode, NoDate, NoDate, zone) :
        actor \in Users, targetIds \in SUBSET Users,
        mode \in (StatModes \ {"custom"}) \cup {"", "hour"}, zone \in ServerZones}

\* the rows of work_logs that SpecStats starts from: a row of either user
\* that starts on 1970-01-01 or on 1970-01-15 and is open or was closed
\* after 90 seconds
StatShapes ==
    {[userId |-> u, startTime |-> d * DayMs, endTime |-> end, duration |-> dur,
      isManual |-> FALSE] :
        u \in Users, d \in StatStarts, end \in {Null}, dur \in {Null}}
    \cup
    {[userId |-> u, startTime |-> d * DayMs, endTime |-> d * DayMs + 90 * MsPerSec,
      duration |-> 90, isManual |-> FALSE] : u \in Users, d \in StatStarts}

\* a table of at most MaxStatRows rows and one query in flight
InitStats ==
    /\ \E n \in 0..MaxStatRows : \E f \in [1..n -> StatShapes] :
          /\ ledger = {Row(i, f[i]) : i \in 1..n}
          /\ nextId = n + 1
    /\ cats = [c \in CatIds |-> [name |-> IF c = 1 THEN "Mail" ELSE "Meeting",
                                 isDeleted |-> FALSE]]
    /\ clock = MaxTicks * TickMs
    /\ statuses = {}
    /\ users = InitUsers
    /\ resp = [op |-> "none", user |-> 0, status |-> 0, error |-> "", id |-> 0,
               repeat |-> FALSE]
    /\ \E q \in StatsQueries : conn = [p \in Conns |-> IF p = 1 THEN q ELSE IdleConn]

NextStats == \E p \in Conns : GetStats(p)

SpecStats == InitStats /\ [][NextStats]_vars

\* ---- the totals of GET /logs/stats over tables of several kinds of rows
\* the starts of the rows: 1970-01-01 00:00 UTC, and 1970-01-14 20:00 UTC,
\* which is 1970-01-15 05:00 in JST
TotalStarts == {0, 14 * DayMs - 4 * 3600 * MsPerSec}

\* end (ms after the start) and stored duration of a row: open; closed after
\* 90 s; closed after 30 s; closed after 100 s; closed 90 s before its start with the negative
\* duration stored; closed 90 s before its start with no duration stored
LogKinds ==
    {[endAfter |-> Null, duration |-> Null],
     [endAfter |-> 90 * MsPerSec, duration |-> 90],
     [endAfter |-> 30 * MsPerSec, duration |-> 30],
     [endAfter |-> 100 * MsPerSec, duration |-> 100],
     [endAfter |-> -90 * MsPerSec, duration |-> -90],
     [endAfter |-> -90 * MsPerSec, duration |-> Null]}

TotalShapes ==
    [userId : Users, startTime : TotalStarts, kind : LogKinds, categoryId : CatIds]

TotalRow(i, r) ==
    [id |-> i, userId |-> r.userId, categoryId |-> r.categoryId,
     categoryNameSnapshot |-> IF r.categoryId = 1 THEN "Mail" ELSE "Meeting",
     startTime |-> r.startTime,
     endTime |-> IF r.kind.endAfter = Null THEN Null ELSE r.startTime + r.kind.endAfter,
     duration |-> r.kind.duration, isManual |-> FALSE, isEdited |-> FALSE]

\* the custom ranges of SpecTotals, as <<start date, end date>>: daily
\* buckets (three ranges), monthly buckets, yearly buckets
TotalRanges == {<<0, 14>>, <<-20, 0>>, <<14, 20>>, <<-20, 79>>, <<-20, 779>>}

\* queries of the admin for one user or for both
TotalQueries ==
    {StatsQuery(1, targetIds, "custom", range[1], range[2], zone) :
        targetIds \in (SUBSET Users) \ {{}}, range \in TotalRanges, zone \in ServerZones}
    \cup
    {StatsQuery(1, targetIds, mode, NoDate, NoDate, zone) :
        targetIds \in (SUBSET Users) \ {{}}, mode \in StatModes \ {"custom"},
        zone \in ServerZones}

\* a table of at most MaxTotalRows rows and one query in flight
InitTotals ==
    /\ \E n \in 0..MaxTotalRows : \E f \in [1..n -> TotalShapes] :
          /\ ledger = {TotalRow(i, f[i]) : i \in 1..n}
          /\ nextId = n + 1
    /\ cats = [c \in CatIds |-> [name |-> IF c = 1 THEN "Mail" ELSE "Meeting",
                                 isDeleted |-> FALSE]]
    /\ clock = MaxTicks * TickMs
    /\ statuses = {}
    /\ users = InitUsers
    /\ resp = [op |-> "none", user |-> 0, status |-> 0, error |-> "", id |-> 0,
               repeat |-> FALSE]
    /\ \E q \in TotalQueries : conn = [p \in Conns |-> IF p = 1 THEN q ELSE IdleConn]

SpecTotals == InitTotals /\ [][NextStats]_vars

\* a switch of a day of live operations: the user has not stopped yet
LiveSwitch(u, c) ==
    /\ \A e \in ledger : e.userId = u => ActiveLogs(ledger, u) # {}
    /\ Switch(u, c)

\* days built from switches, ended by a stop, and the history read at any
\* time
NextDay ==
    \/ Tick
    \/ \E u \in Users, c \in CatIds : LiveSwitch(u, c)
    \/ StopReq
    \/ GetHistoryReq

SpecDay == Init /\ [][NextDay]_vars

\* a GET /logs/stats request of the admin arrives on the first connection:
\* a query over one of the fixed windows for LedgerUser
StatsStart ==
    /\ conn[1].pc = "idle"
    /\ \E mode \in StatModes \ {"custom"}, zone \in ServerZones :
          conn' = [conn EXCEPT ![1] = StatsQuery(LedgerUser, {LedgerUser}, mode,
                                                 NoDate, NoDate, zone)]
    /\ UNCHANGED <<ledger, nextId, cats, clock, resp, statuses, users>>

\* a day of one user with entries added by hand: switches, manual entries,
\* and the history and the statistics read at any time
NextManualStats ==
    \/ Tick
    \/ LedgerSwitchReq
    \/ LedgerManualAddReq
    \/ GetHistory(LedgerUser)
    \/ StatsStart
    \/ GetStats(1)

SpecManualStats == Init /\ [][NextManualStats]_vars

\* ------------------------------------------------------- daily attendance
\* daily_statuses and the requests POST /status/leave, POST /status/resume,
\* POST /status/fix and GET /status/check

\* the hour of local time at which a business day starts: earlier activity
\* counts as the day before
DayStartHour == 5

HourMs == 3600 * MsPerSec

\* the work date (days since 1970-01-01) of an instant, in JST
WorkDate(now) == (now + JstOffsetMs - DayStartHour * HourMs) \div DayMs

\* the instants of the attendance scenarios, in JST: 09:00 and 18:00 of
\* 1970-01-01, 04:00 of 1970-01-02 (still the business day 1970-01-01) and
\* 09:00 of 1970-01-02
AttendInstants == {0, 9 * HourMs, 19 * HourMs, 24 * HourMs}

AttendDates == {WorkDate(t) : t \in AttendInstants}

\* time passes to the next instant of the scenario
Pass ==
    /\ \E t \in AttendInstants :
          /\ t > clock
          /\ \A t2 \in AttendInstants : t2 > clock => t <= t2
          /\ clock' = t
    /\ UNCHANGED <<ledger, nextId, cats, resp, conn, statuses, users>>

\* dailyStatus.findUnique({ where: { userId_date: { userId, date } } })
FindStatus(S, u, d) == {s \in S : s.userId = u /\ s.date = d}

UniqueViolation_None(S, u, d) == FALSE

\* @@unique([userId, date]): an insert of a second row for the pair fails
UniqueViolation(S, u, d) == FindStatus(S, u, d) # {}

\* the update half of the upsert: the fields of data are set in the row(s)
\* of the pair, the other fields stay
UpdateStatus(S, u, d, data) ==
    {IF s.userId = u /\ s.date = d THEN data @@ s ELSE s : s \in S}

\* the create half of the upsert (isFixed defaults to false)
CreateStatus(S, u, d, data) ==
    S \cup {data @@ [id |-> Cardinality(S) + 1, userId |-> u, date |-> d,
                     hasLeft |-> FALSE, leftAt |-> Null, isFixed |-> FALSE]}

\* dailyStatus.upsert({ where: { userId_date }, update: data, create: data })
UpsertStatus(S, u, d, data) ==
    IF FindStatus(S, u, d) # {} THEN UpdateStatus(S, u, d, data)
    ELSE CreateStatus(S, u, d, data)

\* every open entry of the user is closed at the instant at, as Stop closes
CloseOpenLogs(L, u, at) ==
    {IF e \in ActiveLogs(L, u) THEN CloseLog(e, e.startTime, at) ELSE e : e \in L}

\* the response of an attendance request
AttendReply(op, u, status, error, date, leftAt) ==
    [date |-> date, leftAt |-> leftAt] @@ Reply(op, u, status, error, 0)

\* POST /status/leave
LeaveForDay(u) ==
    LET now == clock
        date == WorkDate(now)
    IN  /\ ledger' = CloseOpenLogs(ledger, u, now)
        /\ statuses' = UpsertStatus(statuses, u, date,
                          [hasLeft |-> TRUE, leftAt |-> now, isFixed |-> FALSE])
        /\ resp' = AttendReply("leave", u, 200, "", date, now)
        /\ UNCHANGED <<nextId, cats, clock, conn, users>>

ResumeDay_Restarts(u) ==
    LET date == WorkDate(clock)
    IN  /\ FindStatus(statuses, u, date) # {}
        /\ statuses' = UpdateStatus(statuses, u, date, [hasLeft |-> FALSE, leftAt |-> Null])
        /\ ledger' = {IF e.userId = u /\ e.endTime # Null
                         /\ \A f \in ledger : f.userId = u => f.startTime <= e.startTime
                      THEN [e EXCEPT !.endTime = Null, !.duration = Null]
                      ELSE e : e \in ledger}
        /\ resp' = AttendReply("resume", u, 200, "", date, Null)
        /\ UNCHANGED <<nextId, cats, clock, conn, users>>

\* POST /status/resume
ResumeDay(u) ==
    LET date == WorkDate(clock)
    IN  /\ UNCHANGED <<ledger, nextId, cats, clock, conn, users>>
        /\ IF FindStatus(statuses, u, date) = {}
           THEN /\ resp' = AttendReply("resume", u, 404, "NotFound", date, Null)
                /\ UNCHANGED statuses
           ELSE /\ statuses' = UpdateStatus(statuses, u, date,
                                  [hasLeft |-> FALSE, leftAt |-> Null])
                /\ resp' = AttendReply("resume", u, 200, "", date, Null)

\* the entries of the user that started on the work date
ActivityOf(L, u, date) == {e \in L : e.userId = u /\ WorkDate(e.startTime) = date}

FixTimeOk_NotBefore(L, u, date, leaveTime) ==
    \A e \in ActivityOf(L, u, date) : leaveTime >= e.startTime

\* the leave time is after the start of the last activity of the date
FixTimeOk(L, u, date, leaveTime) ==
    \A e \in ActivityOf(L, u, date) : leaveTime > e.startTime

\* POST /status/fix
FixDay(actor, u, date, leaveTime) ==
    /\ UNCHANGED <<nextId, cats, clock, conn, users>>
    /\ IF actor # u /\ Role(actor) # "ADMIN"
       THEN /\ resp' = AttendReply("fix", u, 403, "Forbidden", date, leaveTime)
            /\ UNCHANGED <<ledger, statuses>>
       ELSE IF date >= WorkDate(clock) \/ ~FixTimeOk(ledger, u, date, leaveTime)
       THEN /\ resp' = AttendReply("fix", u, 400, "InvalidTime", date, leaveTime)
            /\ UNCHANGED <<ledger, statuses>>
       ELSE /\ ledger' = CloseOpenLogs(ledger, u, leaveTime)
            /\ statuses' = UpsertStatus(statuses, u, date,
                              [hasLeft |-> TRUE, leftAt |-> leaveTime, isFixed |-> TRUE])
            /\ resp' = AttendReply("fix", u, 200, "", date, leaveTime)

\* the answer of GET /status/check for a user and a date
DailyStatus(L, S, u, date) ==
    LET hasOpenEntry == \E e \in ActiveLogs(L, u) : WorkDate(e.startTime) <= date
        hasLeft == \E s \in FindStatus(S, u, date) : s.hasLeft
    IN  [hasOpenEntry |-> hasOpenEntry, hasLeft |-> hasLeft,
         needsFix |-> hasOpenEntry \/ ~hasLeft]

\* GET /status/check
CheckDailyStatus(u, date) ==
    /\ resp' = [body |-> DailyStatus(ledger, statuses, u, date)]
                  @@ AttendReply("check", u, 200, "", date, Null)
    /\ UNCHANGED <<ledger, nextId, cats, clock, conn, statuses, users>>

\* the user whose days the attendance scenarios follow
AttendUser == 1

LeaveReq == LeaveForDay(AttendUser)
ResumeReq == ResumeDay(AttendUser)
FixReq ==
    \E actor \in Users, d \in AttendDates, t \in AttendInstants :
        FixDay(actor, AttendUser, d, t)
CheckReq == \E d \in AttendDates : CheckDailyStatus(AttendUser, d)
AttendSwitchReq == \E c \in CatIds : Switch(AttendUser, c)

\* the days of one user: switches, leave, resume, fix and check, one request
\* at a time
NextAttend ==
    \/ Pass
    \/ AttendSwitchReq
    \/ LeaveReq
    \/ ResumeReq
    \/ FixReq
    \/ CheckReq

SpecAttend == Init /\ [][NextAttend]_vars

\* ------------------------------------- attendance requests, interleaved
\* the requests of several connections interleave at every statement of the
\* handlers: close the open entries, look the record up, write it

AttendConn(pc, op, u, date, leftAt, data, found) ==
    [pc |-> pc, op |-> op, user |-> u, date |-> date, leftAt |-> leftAt,
     data |-> data, found |-> found]

\* POST /status/leave up to its first statement: now and the work date
LeaveStart(p, u) ==
    /\ conn[p].pc = "idle"
    /\ conn' = [conn EXCEPT ![p] =
                  AttendConn("at_close", "leave", u, WorkDate(clock), clock,
                             [hasLeft |-> TRUE, leftAt |-> clock, isFixed |-> FALSE], FALSE)]
    /\ UNCHANGED <<ledger, nextId, cats, clock, resp, statuses, users>>

\* POST /status/resume up to its first statement
ResumeStart(p, u) ==
    /\ conn[p].pc = "idle"
    /\ conn' = [conn EXCEPT ![p] =
                  AttendConn("at_find", "resume", u, WorkDate(clock), Null,
                             [hasLeft |-> FALSE, leftAt |-> Null], FALSE)]
    /\ UNCHANGED <<ledger, nextId, cats, clock, resp, statuses, users>>

\* POST /status/fix up to its first write: the checks
FixStart(p, actor, u, date, leaveTime) ==
    /\ conn[p].pc = "idle"
    /\ UNCHANGED <<ledger, nextId, cats, clock, statuses, users>>
    /\ IF actor # u /\ Role(actor) # "ADMIN"
       THEN /\ resp' = AttendReply("fix", u, 403, "Forbidden", date, leaveTime)
            /\ UNCHANGED conn
       ELSE IF date >= WorkDate(clock) \/ ~FixTimeOk(ledger, u, date, leaveTime)
       THEN /\ resp' = AttendReply("fix", u, 400, "InvalidTime", date, leaveTime)
            /\ UNCHANGED conn
       ELSE /\ conn' = [conn EXCEPT ![p] =
                          AttendConn("at_close", "fix", u, date, leaveTime,
                                     [hasLeft |-> TRUE, leftAt |-> leaveTime,
                                      isFixed |-> TRUE], FALSE)]
            /\ UNCHANGED resp

\* Leave and Fix close the open entries of the user
AttendClose(p) ==
    /\ conn[p].pc = "at_close"
    /\ ledger' = CloseOpenLogs(ledger, conn[p].user, conn[p].leftAt)
    /\ conn' = [conn EXCEPT ![p].pc = "at_find"]
    /\ UNCHANGED <<nextId, cats, clock, resp, statuses, users>>

\* the upsert looks the record of the pair up
AttendFind(p) ==
    /\ conn[p].pc = "at_find"
    /\ conn' = [conn EXCEPT ![p].pc = "at_write",
                            ![p].found = FindStatus(statuses, conn[p].user, conn[p].date) # {}]
    /\ UNCHANGED <<ledger, nextId, cats, clock, resp, statuses, users>>

\* the upsert writes: an update of the record found, else an insert, which
\* the unique index refuses when the record was inserted in between
AttendWrite(p) ==
    LET q == conn[p]
    IN  /\ q.pc = "at_write"
        /\ Finish(p)
        /\ UNCHANGED <<ledger, nextId, cats, clock, users>>
        /\ IF q.found
           THEN /\ statuses' = UpdateStatus(statuses, q.user, q.date, q.data)
                /\ resp' = AttendReply(q.op, q.user, 200, "", q.date, q.leftAt)
           ELSE IF q.op = "resume"
           THEN /\ resp' = AttendReply(q.op, q.user, 404, "NotFound", q.date, q.leftAt)
                /\ UNCHANGED statuses
           ELSE IF UniqueViolation(statuses, q.user, q.date)
           THEN /\ resp' = AttendReply(q.op, q.user, 500, "Unique constraint failed",
                                       q.date, q.leftAt)
                /\ UNCHANGED statuses
           ELSE /\ statuses' = CreateStatus(statuses, q.user, q.date, q.data)
                /\ resp' = AttendReply(q.op, q.user, 200, "", q.date, q.leftAt)

\* the user began the day at 09:00 with a switch; it is 04:00 of the next
\* morning, the business day has not ended
InitAttendConc ==
    /\ ledger = {NewLog(1, AttendUser, 1, "Mail", 0)}
    /\ nextId = 2
    /\ cats = [c \in CatIds |-> [name |-> IF c = 1 THEN "Mail" ELSE "Meeting",
                                 isDeleted |-> FALSE]]
    /\ clock = 19 * HourMs
    /\ statuses = {}
    /\ users = InitUsers
    /\ resp = [op |-> "none", user |-> 0, status |-> 0, error |-> "", id |-> 0,
               repeat |-> FALSE]
    /\ conn = [p \in Conns |-> IdleConn]

NextAttendConc ==
    \/ Pass
    \/ \E p \in Conns : LeaveStart(p, AttendUser)
    \/ \E p \in Conns : ResumeStart(p, AttendUser)
    \/ \E p \in Conns, actor \in Users, d \in AttendDates, t \in AttendInstants :
          FixStart(p, actor, AttendUser, d, t)
    \/ \E p \in Conns : AttendClose(p)
    \/ \E p \in Conns : AttendFind(p)
    \/ \E p \in Conns : AttendWrite(p)

SpecAttendConc == InitAttendConc /\ [][NextAttendConc]_vars

\* ------------------------------------------------------ user management
\* PUT /users/:id and PATCH /users/:id/status in the steps between their
\* awaits: findUnique, count and update are separate statements with no
\* transaction around them.
MissingUser == 3
NoUser == [role |-> "", status |-> ""]

\* a connection in a user-management request
UserConn(pc, op, actor, target, role, status, found) ==
    [pc |-> pc, op |-> op, user |-> actor, target |-> target, role |-> role,
     status |-> status, found |-> found]

\* prisma.user.findUnique({ where: { id } }), null for no such user
FindUser(id) == IF id \in Users THEN users[id] ELSE NoUser

\* prisma.user.count({ where: { role: 'ADMIN', status: { not: 'DELETED' } } })
AdminCount == Cardinality({u \in Users : users[u].role = "ADMIN" /\ users[u].status # "DELETED"})

\* prisma.user.count({ where: { role: 'ADMIN', status: 'ACTIVE' } })
ActiveAdminCount ==
    Cardinality({u \in Users : users[u].role = "ADMIN" /\ users[u].status = "ACTIVE"})

\* PUT /users/:id up to the first await: the Admin-only check
UpdateUserStart(p, actor, id, role) ==
    /\ conn[p].pc = "idle"
    /\ IF Role(actor) # "ADMIN"
       THEN /\ resp' = Reply("user", actor, 403, "Admin only", 0)
            /\ UNCHANGED conn
       ELSE /\ conn' = [conn EXCEPT ![p] =
                          UserConn(IF role = "USER" THEN "uu_find" ELSE "uu_update",
                                   "user", actor, id, role, "", NoUser)]
            /\ UNCHANGED resp
    /\ UNCHANGED <<ledger, nextId, cats, clock, statuses, users>>

\* userToUpdate = await prisma.user.findUnique(...)
UpdateUserFind(p) ==
    /\ conn[p].pc = "uu_find"
    /\ conn' = [conn EXCEPT ![p].found = FindUser(conn[p].target),
                            ![p].pc = IF FindUser(conn[p].target).role = "ADMIN"
                                      THEN "uu_count" ELSE "uu_update"]
    /\ UNCHANGED <<ledger, nextId, cats, clock, resp, statuses, users>>

\* adminCount = await prisma.user.count(...); if (adminCount <= 1) return 400
UpdateUserCount(p) ==
    /\ conn[p].pc = "uu_count"
    /\ IF AdminCount <= 1
       THEN /\ resp' = Reply("user", conn[p].user, 400, "Cannot remove last admin", 0)
            /\ Finish(p)
       ELSE /\ conn' = [conn EXCEPT ![p].pc = "uu_update"]
            /\ UNCHANGED resp
    /\ UNCHANGED <<ledger, nextId, cats, clock, statuses, users>>

\* await prisma.user.update({ where: { id }, data: { name, role, hourlyRate } })
UpdateUserWrite(p) ==
    /\ conn[p].pc = "uu_update"
    /\ IF conn[p].target \notin Users
       THEN /\ resp' = Reply("user", conn[p].user, 500, "Failed to update user", 0)
            /\ UNCHANGED users
       ELSE /\ users' = [users EXCEPT ![conn[p].target].role = conn[p].role]
            /\ resp' = Reply("user", conn[p].user, 200, "", 0)
    /\ Finish(p)
    /\ UNCHANGED <<ledger, nextId, cats, clock, statuses>>

\* PATCH /users/:id/status up to the first await: the Admin-only check
UserStatusStart(p, actor, id, status) ==
    /\ conn[p].pc = "idle"
    /\ IF Role(actor) # "ADMIN"
       THEN /\ resp' = Reply("userStatus", actor, 403, "Admin only", 0)
            /\ UNCHANGED conn
       ELSE /\ conn' = [conn EXCEPT ![p] =
                          UserConn(IF status \in {"DISABLED", "DELETED"}
                                   THEN "us_find" ELSE "us_update",
                                   "userStatus", actor, id, "", status, NoUser)]
            /\ UNCHANGED resp
    /\ UNCHANGED <<ledger, nextId, cats, clock, statuses, users>>

\* userToUpdate = await prisma.user.findUnique(...)
UserStatusFind(p) ==
    /\ conn[p].pc = "us_find"
    /\ conn' = [conn EXCEPT ![p].found = FindUser(conn[p].target),
                            ![p].pc = IF FindUser(conn[p].target).role = "ADMIN"
                                      THEN "us_count" ELSE "us_update"]
    /\ UNCHANGED <<ledger, nextId, cats, clock, resp, statuses, users>>

\* the two counts (adminCount is not used) and the check of the ACTIVE
\* admins against the status that findUnique returned
UserStatusCount(p) ==
    /\ conn[p].pc = "us_count"
    /\ IF conn[p].found.status = "ACTIVE" /\ ActiveAdminCount <= 1
       THEN /\ resp' = Reply("userStatus", conn[p].user, 400,
                             "Cannot disable/delete last active admin", 0)
            /\ Finish(p)
       ELSE /\ conn' = [conn EXCEPT ![p].pc = "us_update"]
            /\ UNCHANGED resp
    /\ UNCHANGED <<ledger, nextId, cats, clock, statuses, users>>

\* await prisma.user.update({ where: { id }, data: { status } })
UserStatusWrite(p) ==
    /\ conn[p].pc = "us_update"
    /\ IF conn[p].target \notin Users
       THEN /\ resp' = Reply("userStatus", conn[p].user, 500, "Failed to update user status", 0)
            /\ UNCHANGED users
       ELSE /\ users' = [users EXCEPT ![conn[p].target].status = conn[p].status]
            /\ resp' = Reply("userStatus", conn[p].user, 200, "", 0)
    /\ Finish(p)
    /\ UNCHANGED <<ledger, nextId, cats, clock, statuses>>

\* the users whose requests reach the router: req.user is set for a user
\* that is ACTIVE
Actors == {u \in Users : users[u].status = "ACTIVE"}

\* user-management requests of any ACTIVE user on any connection, for a
\* user of the table or an id that no user has
NextUsers ==
    \/ \E p \in Conns, a \in Actors, id \in Users \cup {MissingUser},
          role \in {"ADMIN", "USER"} :
          UpdateUserStart(p, a, id, role)
    \/ \E p \in Conns : UpdateUserFind(p)
    \/ \E p \in Conns : UpdateUserCount(p)
    \/ \E p \in Conns : UpdateUserWrite(p)
    \/ \E p \in Conns, a \in Actors, id \in Users \cup {MissingUser},
          status \in {"ACTIVE", "DISABLED", "DELETED"} :
          UserStatusStart(p, a, id, status)
    \/ \E p \in Conns : UserStatusFind(p)
    \/ \E p \in Conns : UserStatusCount(p)
    \/ \E p \in Conns : UserStatusWrite(p)

SpecUsers == Init /\ [][NextUsers]_vars

\* ------------------------------------------------------------- claims
Ids(L) == {e.id : e \in L}
OpenOf(L, u) == {e \in L : e.userId = u /\ e.endTime = Null}
\* d is ms in whole seconds
WholeSeconds(d, ms) == d * 1000 <= ms /\ ms < d * 1000 + 1000

\* C1: with the requests of a user processed one at a time, every reachable
\* ledger holds at most one entry of each user with endTime = null.
C1_AtMostOneOpen ==
    \A u \in Users : Cardinality({e \in ledger : e.userId = u /\ e.endTime = Null}) <= 1

\* a Switch has replaced an open entry: the user has the new open entry and
\* the entry that was closed
C1_Witness ==
    /\ resp.op = "switch" /\ resp.status = 200
    /\ \E e \in ledger : e.id = resp.id /\ e.endTime = Null /\ e.userId = resp.user
    /\ \E e \in ledger : e.userId = resp.user /\ e.endTime = clock /\ ~e.isManual

\* C3: a successful Switch(u, c) at instant clock closes the open entry of u
\* (endTime = now, duration = now - startTime in whole seconds), creates
\* exactly one entry (startTime = now, endTime = null, categoryId = c,
\* isManual = false, snapshot = the name of c at the call), returns it and
\* changes nothing else.
C3_SwitchEffect ==
    [][\A u \in Users, c \in CatIds :
         (resp'.op = "switch" /\ resp'.user = u /\ resp'.status = 200 /\ Switch(u, c)) =>
            LET open == OpenOf(ledger, u)
                new == [id |-> nextId, userId |-> u, categoryId |-> c,
                        categoryNameSnapshot |-> cats[c].name,
                        startTime |-> clock, endTime |-> Null, duration |-> Null,
                        isManual |-> FALSE, isEdited |-> FALSE]
            IN  /\ new \in ledger' /\ new.id \notin Ids(ledger) /\ resp'.id = new.id
                /\ Ids(ledger') = Ids(ledger) \cup {new.id}
                /\ Cardinality(ledger') = Cardinality(ledger) + 1
                /\ \A e \in ledger \ open : e \in ledger'
                /\ \A e \in open : \E d \in 0..MaxTicks :
                      /\ WholeSeconds(d, clock - e.startTime)
                      /\ [e EXCEPT !.endTime = clock, !.duration = d] \in ledger'
    ]_vars

\* a Switch closed an entry that had run for half a second (0 whole seconds)
\* and created the new one under the name the category was renamed to
C3_Witness ==
    /\ resp.op = "switch" /\ resp.status = 200
    /\ \E n \in ledger : /\ n.id = resp.id /\ n.endTime = Null /\ n.startTime = clock
                         /\ n.categoryNameSnapshot = "Email"
    /\ \E e \in ledger : /\ e.userId = resp.user /\ e.endTime = clock /\ ~e.isManual
                         /\ e.startTime = clock - TickMs /\ e.duration = 0

\* C5: switchSession with a categoryId that resolves to no category fails
\* with CategoryNotFound and leaves the ledger unchanged.
C5_SwitchUnknownCategory ==
    [][\A u \in Users :
         (resp'.op = "switch" /\ resp'.user = u /\ Switch(u, MissingCat)) =>
            /\ resp'.status = 404 /\ resp'.error = "Category not found"
            /\ ledger' = ledger /\ nextId' = nextId
    ]_vars

\* the failed Switch left the open entry of its user open
C5_Witness ==
    /\ resp.op = "switch" /\ resp.status = 404
    /\ \E e \in ledger : e.userId = resp.user /\ e.endTime = Null

\* C6: Stop on a user with an open entry sets its endTime to now and its
\* duration to now - startTime in whole seconds, creates no entry, leaves
\* every other entry unchanged; afterwards the user has no open entry.
C6_StopEffect ==
    [][\A u \in Users :
         (resp'.op = "stop" /\ resp'.user = u /\ OpenOf(ledger, u) # {} /\ Stop(u)) =>
            /\ resp'.status = 200
            /\ \E e \in OpenOf(ledger, u) : \E d \in 0..MaxTicks :
                  /\ WholeSeconds(d, clock - e.startTime)
                  /\ ledger' = (ledger \ {e}) \cup {[e EXCEPT !.endTime = clock, !.duration = d]}
            /\ OpenOf(ledger', u) = {}
            /\ nextId' = nextId
    ]_vars

\* a Stop closed an entry after one second
\* beside another entry of the ledger
C6_Witness ==
    /\ resp.op = "stop" /\ resp.status = 200
    /\ \E e \in ledger : /\ e.id = resp.id /\ e.endTime = clock /\ e.duration = 1
                         /\ e.startTime = clock - 2 * TickMs
    /\ Cardinality(ledger) >= 2

\* C7: a stop directly after a successful stop of the same user fails with
\* NoActiveSession and leaves the ledger as the first stop left it.
C7_SecondStop ==
    [][\A u \in Users :
         (resp.op = "stop" /\ resp.user = u /\ resp.status = 200 /\ Stop(u)) =>
            /\ resp'.status = 404 /\ resp'.error = "No active log found"
            /\ ledger' = ledger /\ nextId' = nextId
    ]_vars

\* the second of two stops in a row was answered, the other user still
\* having an open entry
C7_Witness ==
    /\ resp.op = "stop" /\ resp.status = 404 /\ resp.repeat
    /\ \E e \in ledger : e.userId = resp.user /\ e.endTime # Null /\ ~e.isManual
    /\ \E e \in ledger : e.userId # resp.user /\ e.endTime = Null

C9_AsClaimed ==
    [][\A u \in Users, c \in CatIds \cup {MissingCat}, t \in Instants :
         (resp'.op = "manual" /\ resp'.user = u /\ ManualAdd(u, c, t)) =>
            /\ (t >= clock) =>
                  /\ resp'.status = 400
                  /\ resp'.error = "startTime must be before current time"
                  /\ ledger' = ledger /\ nextId' = nextId
            /\ (c \notin DOMAIN cats) =>
                  /\ resp'.status = 404 /\ resp'.error = "Category not found"
                  /\ ledger' = ledger /\ nextId' = nextId
    ]_vars

\* C9 amended: addManualEntry fails with InvalidTime whenever
\* startTime >= now, and with CategoryNotFound whenever the category does not
\* exist and startTime < now; the ledger is unchanged in both cases.
C9_ManualAddErrors ==
    [][\A u \in Users, c \in CatIds \cup {MissingCat}, t \in Instants :
         (resp'.op = "manual" /\ resp'.user = u /\ ManualAdd(u, c, t)) =>
            /\ (t >= clock) =>
                  /\ resp'.status = 400
                  /\ resp'.error = "startTime must be before current time"
                  /\ ledger' = ledger /\ nextId' = nextId
            /\ (c \notin DOMAIN cats /\ t < clock) =>
                  /\ resp'.status = 404 /\ resp'.error = "Category not found"
                  /\ ledger' = ledger /\ nextId' = nextId
    ]_vars

\* a manual add was refused for its category while the ledger held entries
C9_Witness ==
    /\ resp.op = "manual" /\ resp.status = 404 /\ resp.error = "Category not found"
    /\ ledger # {}

\* C10: a successful editEntryCategory sets categoryId, the snapshot (the
\* current name of the new category) and isEdited = true, and changes no
\* other field of the entry and no other entry, for a closed entry and for
\* the open entry alike.
C10_EditEffect ==
    [][\A a \in Users, id \in 1..MaxLogs, c \in CatIds :
         (resp'.op = "edit" /\ resp'.user = a /\ resp'.status = 200 /\ Edit(a, id, c)) =>
            \E e \in ledger :
               /\ e.id = id
               /\ ledger' = (ledger \ {e}) \cup
                     {[id |-> e.id, userId |-> e.userId, categoryId |-> c,
                       categoryNameSnapshot |-> cats[c].name,
                       startTime |-> e.startTime, endTime |-> e.endTime,
                       duration |-> e.duration, isManual |-> e.isManual,
                       isEdited |-> TRUE]}
    ]_vars

\* the open entry was edited to a renamed category, a closed entry having
\* been edited before
C10_Witness ==
    /\ resp.op = "edit" /\ resp.status = 200
    /\ \E e \in ledger : /\ e.id = resp.id /\ e.endTime = Null /\ e.isEdited
                         /\ e.categoryNameSnapshot = "Email"
    /\ \E e \in ledger : e.endTime # Null /\ e.isEdited /\ e.duration # Null

\* C2 as claimed: once two concurrent switchSession calls of one user have
\* completed, the user has exactly one open entry. Stated on the state in
\* which no request is in flight and the last response is a successful
\* Switch: its user then has exactly one open entry.
C2_AsClaimed ==
    ((\A p \in Conns : conn[p].pc = "idle") /\ resp.op = "switch" /\ resp.status = 200)
        => Cardinality({e \in ledger : e.userId = resp.user /\ e.endTime = Null}) = 1

\* C4: Switch is indivisible and all-or-nothing. No step of a Switch before
\* its commit changes the ledger that other requests read, a Switch that
\* fails changes nothing, and the commit closes the entry the Switch found
\* open and creates the new entry in the same step.
C4_SwitchIndivisible ==
    [][\A p \in Conns :
         /\ (conn[p].pc = "sw_close" /\ SwitchClose(p)) => ledger' = ledger
         /\ (conn[p].op = "switch" /\ resp'.status = 500 /\ SwitchFail(p)) =>
               ledger' = ledger
         /\ (conn[p].pc = "sw_create" /\ SwitchCreate(p)) =>
               /\ \E n \in ledger' \ ledger :
                     n.id = resp'.id /\ n.endTime = Null /\ n.startTime = conn[p].now
               /\ \A e \in conn[p].active : \E r \in ledger' :
                     r.id = e.id /\ r.endTime = conn[p].now
    ]_vars

\* a Switch failed after its update of the open entry, and the entry is
\* still open
C4_Witness ==
    /\ resp.op = "switch" /\ resp.status = 500 /\ resp.id # 0
    /\ \E e \in ledger : e.id = resp.id /\ e.endTime = Null /\ e.userId = resp.user

\* C11: editEntryCategory and deleteEntry answer "Log not found" when no
\* entry has the id and "Forbidden" when the entry belongs to another user
\* and the actor (user 2, a regular user) is no admin; in both failures the
\* ledger is left as it was.
C11_EditDeleteChecks ==
    [][\A a \in Users, id \in 1..MaxLogs + 1 :
         /\ \A c \in CatIds \cup {MissingCat} :
              (resp'.op = "edit" /\ resp'.user = a /\ Edit(a, id, c)) =>
                 /\ id \notin Ids(ledger) =>
                       resp'.status = 404 /\ resp'.error = "Log not found" /\ ledger' = ledger
                 /\ (a = 2 /\ \E e \in ledger : e.id = id /\ e.userId # a) =>
                       resp'.status = 403 /\ resp'.error = "Forbidden" /\ ledger' = ledger
         /\ (resp'.op = "delete" /\ resp'.user = a /\ Delete(a, id)) =>
                 /\ id \notin Ids(ledger) =>
                       resp'.status = 404 /\ resp'.error = "Log not found" /\ ledger' = ledger
                 /\ (a = 2 /\ \E e \in ledger : e.id = id /\ e.userId # a) =>
                       resp'.status = 403 /\ resp'.error = "Forbidden" /\ ledger' = ledger
    ]_vars

\* a regular user was refused the deletion of another user's entry, which
\* is still in the ledger
C11_Witness ==
    /\ resp.op = "delete" /\ resp.user = 2 /\ resp.status = 403
    /\ \E e \in ledger : e.userId = 1

\* C12: a rename of a category and a deletion of a category leave the
\* categoryNameSnapshot of every entry as it was, the entries that reference
\* the category included.
C12_CatalogueKeepsSnapshots ==
    [][(cats' # cats /\ (RenameReq \/ DeleteCategoryReq)) =>
          /\ Ids(ledger') = Ids(ledger)
          /\ \A e \in ledger : \E f \in ledger' :
                f.id = e.id /\ f.categoryNameSnapshot = e.categoryNameSnapshot
    ]_vars

\* an entry references a category that was renamed and deleted after the
\* entry took its snapshot
C12_Witness ==
    \E e \in ledger :
        /\ e.categoryId \in CatIds
        /\ cats[e.categoryId].isDeleted
        /\ cats[e.categoryId].name # e.categoryNameSnapshot

\* C13 as claimed: no operation at all changes the categoryNameSnapshot of
\* an entry.
C13_AsClaimed ==
    [][\A e \in ledger, f \in ledger' :
         f.id = e.id => f.categoryNameSnapshot = e.categoryNameSnapshot]_vars

\* C13: the categoryNameSnapshot of an entry changes only in a successful
\* editEntryCategory of that entry, which stores the current name of the new
\* category; Switch, Stop, ManualAdd, Delete, an edit of another entry and a
\* category rename or deletion leave it as it was.
C13_SnapshotOnlyEdited ==
    [][\A e \in ledger, f \in ledger' :
         (f.id = e.id /\ f.categoryNameSnapshot # e.categoryNameSnapshot) =>
             /\ resp'.op = "edit" /\ resp'.status = 200 /\ resp'.id = e.id
             /\ cats' = cats
             /\ f.categoryNameSnapshot = cats[f.categoryId].name
    ]_vars

\* an entry was just edited to the second category while another entry
\* still carries the name its category had before the rename
C13_Witness ==
    /\ resp.op = "edit" /\ resp.status = 200
    /\ \E e \in ledger : e.id = resp.id /\ e.isEdited /\ e.categoryNameSnapshot = "Meeting"
    /\ \E f \in ledger :
          /\ f.id # resp.id /\ ~f.isEdited
          /\ f.categoryNameSnapshot # cats[f.categoryId].name

\* C14: no operation changes the startTime of an entry of the ledger.
C14_StartTimeFixed ==
    [][\A e \in ledger, f \in ledger' : f.id = e.id => f.startTime = e.startTime]_vars

\* an entry that was created by a switch, closed later and then edited
C14_Witness ==
    \E e \in ledger :
        e.isEdited /\ ~e.isManual /\ e.endTime # Null /\ e.startTime < e.endTime

\* C15: in a history response (newest entry first) every entry that has a
\* next entry ends at the startTime of the next one and lasts the whole
\* seconds from its own startTime to it, whatever endTime and duration its
\* row stores; consecutive entries leave no gap and no overlap.
C15_NextStartIsEnd ==
    resp.op = "history" =>
        \A i \in 2..Len(resp.body) :
            /\ resp.body[i].endTime = resp.body[i - 1].startTime
            /\ WholeSeconds(resp.body[i].duration,
                            resp.body[i - 1].startTime - resp.body[i].startTime)
            /\ \E e \in ledger :
                  /\ e.id = resp.body[i].id /\ e.userId = resp.user
                  /\ e.startTime = resp.body[i].startTime

\* a history of three entries whose middle entry is reported with an end
\* and a duration other than the stored ones
C15_Witness ==
    /\ resp.op = "history" /\ Len(resp.body) = 3
    /\ \E e \in ledger :
          /\ e.id = resp.body[2].id
          /\ e.endTime # Null /\ e.endTime # resp.body[2].endTime
          /\ e.duration # Null /\ e.duration # resp.body[2].duration

\* C16: the last entry of a history response (the first of the list) is a
\* latest entry of the user's day; it is reported with its stored endTime
\* and its stored duration when the row has an endTime, the duration being
\* the whole seconds from startTime to endTime only when the row stores
\* none, and with no end and no duration when the row has no endTime.
C16_LastEntryAsStored ==
    (resp.op = "history" /\ Len(resp.body) > 0) =>
        \E e \in ledger :
            /\ e.id = resp.body[1].id /\ e.userId = resp.user
            /\ e.startTime = resp.body[1].startTime
            /\ \A f \in ledger : f.userId = resp.user => f.startTime <= e.startTime
            /\ e.endTime # Null =>
                  /\ resp.body[1].endTime = e.endTime
                  /\ e.duration # Null => resp.body[1].duration = e.duration
                  /\ e.duration = Null =>
                        WholeSeconds(resp.body[1].duration, e.endTime - e.startTime)
            /\ e.endTime = Null =>
                  resp.body[1].endTime = Null /\ resp.body[1].duration = Null

\* the last entry of the history is closed and its row stores no duration:
\* the response carries the second between its start and its end
C16_Witness ==
    /\ resp.op = "history" /\ Len(resp.body) >= 2
    /\ resp.body[1].duration = 1
    /\ \E e \in ledger :
          e.id = resp.body[1].id /\ e.endTime # Null /\ e.duration = Null

C17_AsClaimed ==
    resp.op = "history" =>
        LET mine == {e \in ledger : e.userId = resp.user}
        IN  /\ Len(resp.body) = Cardinality(mine)
            /\ \A i \in 1..Len(resp.body) : \E e \in mine :
                  /\ e.id = resp.body[i].id
                  /\ e.endTime # Null =>
                        /\ resp.body[i].endTime = e.endTime
                        /\ resp.body[i].duration = e.duration
            /\ OpenOf(ledger, resp.user) = {} =>
                  \A i \in 1..Len(resp.body) : resp.body[i].endTime # Null

\* C17: when the entries of a user come from switches at pairwise distinct
\* instants and an optional final stop, the history has one entry per
\* switch, reports every closed entry with its stored endTime and
\* duration, and reports only closed entries once the user has stopped.
C17_LiveDayAsStored ==
    resp.op = "history" =>
        LET mine == {e \in ledger : e.userId = resp.user}
        IN  (\A e, f \in mine : e # f => e.startTime # f.startTime) =>
              /\ Len(resp.body) = Cardinality(mine)
              /\ \A i \in 1..Len(resp.body) : \E e \in mine :
                    /\ e.id = resp.body[i].id
                    /\ e.endTime # Null =>
                          /\ resp.body[i].endTime = e.endTime
                          /\ resp.body[i].duration = e.duration
              /\ OpenOf(ledger, resp.user) = {} =>
                    \A i \in 1..Len(resp.body) : resp.body[i].endTime # Null

\* two switches and a stop at three instants, and the history of the day:
\* two closed entries, the first ending where the second starts
C17_Witness ==
    /\ resp.op = "history" /\ Len(resp.body) = 2
    /\ OpenOf(ledger, resp.user) = {}
    /\ resp.body[2].startTime < resp.body[1].startTime
    /\ resp.body[2].endTime = resp.body[1].startTime
    /\ resp.body[1].endTime > resp.body[1].startTime
    /\ \A e \in ledger : e.userId = resp.user => e.endTime # Null

\* C19: a custom query whose range runs over D calendar days, from the
\* first moment of its start date to the last moment of its end date, is
\* answered with daily buckets when D <= 31, with monthly buckets when
\* 31 < D <= 366 and with yearly buckets when D > 366 (10 days: daily,
\* 100 days: monthly, 800 days: yearly).
C19_Granularity ==
    (resp.op = "stats" /\ resp.status = 200 /\ resp.req.mode = "custom"
                       /\ resp.req.start <= resp.req.end) =>
        LET D == resp.req.end - resp.req.start + 1
        IN  /\ D <= 31 => resp.body.bucketMode = "day"
            /\ (31 < D /\ D <= 366) => resp.body.bucketMode = "month"
            /\ D > 366 => resp.body.bucketMode = "year"

\* a custom query over 32 days was answered with monthly buckets
C19_Witness ==
    /\ resp.op = "stats" /\ resp.status = 200 /\ resp.req.mode = "custom"
    /\ resp.req.end - resp.req.start + 1 = 32
    /\ resp.body.bucketMode = "month"

\* C20 as claimed: the time series of a custom query with daily buckets has
\* one bucket for each calendar day from the start date to the end date, in
\* ascending order, and no other bucket.
C20_AsClaimed ==
    (resp.op = "stats" /\ resp.status = 200 /\ resp.req.mode = "custom"
                       /\ resp.req.start <= resp.req.end
                       /\ resp.body.bucketMode = "day") =>
        /\ Len(resp.body.timeSeries) = resp.req.end - resp.req.start + 1
        /\ \A i \in 1..Len(resp.body.timeSeries) :
              resp.body.timeSeries[i].label = resp.req.start + i - 1

\* the year and month of a date as one number
MonthOf(day) == CivilOf(day).year * 12 + CivilOf(day).month

\* the entries that an answered custom query counts: entries of the target
\* users that start on a local day of the range and have a duration other
\* than 0, stored or, when none is stored, taken from start and end
Counted ==
    {e \in ledger :
        /\ e.userId \in resp.req.targetIds
        /\ resp.req.start <= LocalDay(Wide(e.startTime), resp.req.zone)
        /\ LocalDay(Wide(e.startTime), resp.req.zone) <= resp.req.end
        /\ IF e.duration # Null THEN e.duration # 0
           ELSE e.endTime # Null /\ (e.endTime - e.startTime) \div 1000 # 0}

\* the startTime of e lies in the span of bucket i (from 1) of the answered
\* custom query: the i-th local day, month or year from the start date on
InSpan(e, i) ==
    LET day == LocalDay(Wide(e.startTime), resp.req.zone)
    IN  IF resp.body.bucketMode = "day" THEN day = resp.req.start + i - 1
        ELSE IF resp.body.bucketMode = "month"
        THEN MonthOf(day) = MonthOf(resp.req.start) + i - 1
        ELSE CivilOf(day).year = CivilOf(resp.req.start).year + i - 1

OpenEntries(L) == {e \in L : e.endTime = Null /\ e.duration = Null}

\* the range of the answered query
AnsweredRange ==
    StatsRange(resp.req.mode, resp.req.start, resp.req.end, Wide(clock), resp.req.zone)

\* C22: an open entry contributes nothing to the statistics: the answer is
\* the one the same query gets from the table without its open entries (the
\* same bucket totals and category totals), and every category row carries
\* the name of an entry that is not open.
C22_OpenContributesNothing ==
    (resp.op = "stats" /\ resp.status = 200) =>
        /\ resp.body = StatsBody(ledger \ OpenEntries(ledger), resp.req.targetIds,
                                 AnsweredRange, resp.req.zone)
        /\ \A n \in DOMAIN resp.body.byCategory :
              \E e \in ledger \ OpenEntries(ledger) :
                 e.userId \in resp.req.targetIds /\ CatName(e) = n

\* the range of an answered query holds an open entry of a target user and a
\* closed one of another category; only the closed one has a category row
C22_Witness ==
    /\ resp.op = "stats" /\ resp.status = 200
    /\ DOMAIN resp.body.byCategory # {}
    /\ \E e \in OpenEntries(ledger) :
          /\ e \in FindManyInRange(ledger, resp.req.targetIds, AnsweredRange)
          /\ CatName(e) \notin DOMAIN resp.body.byCategory

\* the distance of two numbers
Gap(a, b) == IF a >= b THEN a - b ELSE b - a

\* the sum of the totalMinutes of a time series
RECURSIVE SumMinutes(_)
SumMinutes(ts) ==
    IF ts = <<>> THEN 0 ELSE ts[1].totalMinutes + SumMinutes(Tail(ts))

\* the sum of the minutes of a category breakdown
RECURSIVE SumCategories(_)
SumCategories(f) ==
    IF DOMAIN f = {} THEN 0
    ELSE LET n == CHOOSE n \in DOMAIN f : TRUE
         IN  f[n] + SumCategories([k \in DOMAIN f \ {n} |-> f[k]])

\* the entries of the target users inside the range of the answered query
InRange == FindManyInRange(ledger, resp.req.targetIds, AnsweredRange)

\* the statistics were answered from closed entries only, none of which ends
\* before its start
ClosedOnly ==
    /\ resp.op = "stats" /\ resp.status = 200
    /\ \A e \in InRange : e.endTime # Null /\ e.endTime >= e.startTime

\* the entries the answer was computed from share one category
OneCategory == Cardinality({CatName(e) : e \in InRange}) <= 1

\* C23 as the specification states it: for closed entries totalling N
\* seconds inside the range, the buckets' totalMinutes * 60 sum to N within
\* 60 seconds per bucket, and when the entries share one category the
\* byCategory minutes * 60 sum to exactly N.
C23_AsClaimed ==
    ClosedOnly =>
        /\ Gap(SumMinutes(resp.body.timeSeries) * 60, TotalSeconds(InRange))
              <= 60 * Len(resp.body.timeSeries)
        /\ OneCategory =>
              SumCategories(resp.body.byCategory) * 60 = TotalSeconds(InRange)

\* C23: for closed entries totalling N seconds inside the range, the
\* buckets' totalMinutes * 60 sum to N within 60 seconds per bucket, and when
\* the entries share one category the byCategory minutes * 60 differ from N
\* by at most 30 seconds (the total is rounded to whole minutes).
C23_RoundTrip ==
    ClosedOnly =>
        /\ Gap(SumMinutes(resp.body.timeSeries) * 60, TotalSeconds(InRange))
              <= 60 * Len(resp.body.timeSeries)
        /\ OneCategory =>
              Gap(SumCategories(resp.body.byCategory) * 60, TotalSeconds(InRange)) <= 30

\* two closed entries of one category, 30 s and 100 s, in different buckets:
\* N = 130, the buckets sum to 3 minutes and the category has 2 minutes
C23_Witness ==
    /\ ClosedOnly /\ OneCategory
    /\ Cardinality(InRange) = 2
    /\ TotalSeconds(InRange) = 130
    /\ SumMinutes(resp.body.timeSeries) = 3
    /\ SumCategories(resp.body.byCategory) = 2

\* the ways to split the users of the answered query into two sets
Splits ==
    {<<A, B>> \in (SUBSET resp.req.targetIds) \X (SUBSET resp.req.targetIds) :
        A \cap B = {} /\ A \cup B = resp.req.targetIds}

\* C24: the statistics of several users are one time series and one category
\* breakdown; for every split of the users into disjoint sets A and B, each
\* bucket and each category holds, before rounding to minutes, the seconds a
\* query for A gets plus the seconds a query for B gets over the same range.
C24_SumsOverUsers ==
    (resp.op = "stats" /\ resp.status = 200) =>
        \A s \in Splits :
            /\ \A i \in 1..Len(resp.body.timeSeries) :
                  resp.body.timeSeries[i].totalMinutes =
                     RoundDiv(BucketSeconds(ledger, s[1], AnsweredRange, resp.req.zone, i - 1)
                              + BucketSeconds(ledger, s[2], AnsweredRange, resp.req.zone, i - 1), 60)
            /\ \A n \in {CatName(e) : e \in ledger} \cup DOMAIN resp.body.byCategory :
                  (IF n \in DOMAIN resp.body.byCategory THEN resp.body.byCategory[n] ELSE 0) =
                     RoundDiv(CategorySeconds(ledger, s[1], AnsweredRange, n)
                              + CategorySeconds(ledger, s[2], AnsweredRange, n), 60)

\* a query for both users found 30 s of user 1 and 100 s of user 2 in the
\* first bucket and in one category: 2 minutes in the bucket and the category
C24_Witness ==
    /\ resp.op = "stats" /\ resp.status = 200 /\ resp.req.targetIds = Users
    /\ BucketSeconds(ledger, {1}, AnsweredRange, resp.req.zone, 0) = 30
    /\ BucketSeconds(ledger, {2}, AnsweredRange, resp.req.zone, 0) = 100
    /\ resp.body.timeSeries[1].totalMinutes = 2
    /\ \E n \in DOMAIN resp.body.byCategory :
          /\ DOMAIN resp.body.byCategory = {n}
          /\ resp.body.byCategory[n] = 2

\* the entries with a negative duration: stored, or none stored and the
\* endTime before the startTime
NegativeEntries(L) ==
    {e \in L : IF e.duration # Null THEN e.duration < 0
               ELSE e.endTime # Null /\ e.endTime < e.startTime}

\* C25 as the specification states it: an entry with a negative duration
\* counts as zero, it lowers no bucket total and no category total, and every
\* totalMinutes and every byCategory minutes value is at least 0.
C25_AsClaimed ==
    (resp.op = "stats" /\ resp.status = 200) =>
        /\ \A i \in 1..Len(resp.body.timeSeries) :
              /\ resp.body.timeSeries[i].totalMinutes >= 0
              /\ resp.body.timeSeries[i].totalMinutes =
                    RoundDiv(BucketSeconds(ledger \ NegativeEntries(ledger), resp.req.targetIds,
                                           AnsweredRange, resp.req.zone, i - 1), 60)
        /\ \A n \in DOMAIN resp.body.byCategory :
              /\ resp.body.byCategory[n] >= 0
              /\ resp.body.byCategory[n] =
                    RoundDiv(CategorySeconds(ledger \ NegativeEntries(ledger), resp.req.targetIds,
                                             AnsweredRange, n), 60)

\* C26: when a leave of a user taken at the instant now has completed, the
\* user has no open entry, every entry of the user that was open is closed
\* with endTime = now, and the one attendance record of the user for the
\* work date of now has hasLeft = true, leftAt = now and isFixed = false.
C26_LeaveEffect ==
    [][\A u \in Users :
         (resp'.op = "leave" /\ resp'.user = u /\ LeaveForDay(u)) =>
            /\ resp'.status = 200
            /\ OpenOf(ledger', u) = {}
            /\ \A e \in OpenOf(ledger, u) :
                  \E f \in ledger' : f.id = e.id /\ f.endTime = clock
            /\ \E s \in statuses' :
                  /\ s.userId = u /\ s.date = WorkDate(clock)
                  /\ s.hasLeft /\ s.leftAt = clock /\ ~s.isFixed
                  /\ \A s2 \in statuses' :
                        (s2.userId = u /\ s2.date = s.date) => s2 = s
    ]_vars

\* a leave at 04:00 of 1970-01-02 closed an entry at that instant and
\* recorded the leave for the business day 1970-01-01
C26_Witness ==
    /\ resp.op = "leave" /\ resp.status = 200 /\ resp.leftAt = 19 * HourMs
    /\ \E e \in ledger : e.userId = resp.user /\ e.endTime = resp.leftAt
    /\ \A e \in ledger : e.userId = resp.user => e.startTime < resp.leftAt
    /\ \E s \in statuses : /\ s.userId = resp.user /\ s.date = 0
                            /\ s.hasLeft /\ s.leftAt = resp.leftAt /\ ~s.isFixed

\* C27: a resume sets the attendance record of today to hasLeft = false and
\* leftAt = null and changes nothing in the ledger; a user without an open
\* entry gets one only by a switch, so after a leave and a resume the user
\* has no open entry until a later switch.
C27_ResumeKeepsLedger ==
    [][(\A u \in Users :
            (resp'.op = "resume" /\ resp'.user = u /\ ResumeDay(u)) =>
               /\ ledger' = ledger /\ nextId' = nextId
               /\ resp'.status = 200 =>
                     \E s \in statuses' :
                        /\ s.userId = u /\ s.date = WorkDate(clock)
                        /\ ~s.hasLeft /\ s.leftAt = Null)
       /\ (\A v \in Users :
            (OpenOf(ledger, v) = {} /\ OpenOf(ledger', v) # {}) =>
               (resp'.op = "switch" /\ resp'.user = v /\ resp'.status = 200))
    ]_vars

\* after a leave that closed the entry of the day the user resumed: the
\* record is reset and the entry is still closed
C27_Witness ==
    /\ resp.op = "resume" /\ resp.status = 200
    /\ \E s \in statuses : /\ s.userId = resp.user /\ s.date = resp.date
                            /\ ~s.hasLeft /\ s.leftAt = Null
    /\ \E e \in ledger : e.userId = resp.user /\ e.endTime = clock
    /\ OpenOf(ledger, resp.user) = {}

\* C28: a successful fix of a past date closes every open entry of the user
\* with endTime = leaveTime and leaves the one attendance record of the date
\* with hasLeft = true, leftAt = leaveTime and isFixed = true; the daily
\* status of the date then has needsFix = false.
C28_FixEffect ==
    [][\A a \in Users, u \in Users, d \in AttendDates, t \in AttendInstants :
         (resp'.op = "fix" /\ resp'.status = 200 /\ resp'.user = u
            /\ resp'.date = d /\ resp'.leftAt = t /\ FixDay(a, u, d, t)) =>
            /\ d < WorkDate(clock)
            /\ OpenOf(ledger', u) = {}
            /\ \A e \in OpenOf(ledger, u) :
                  \E f \in ledger' : f.id = e.id /\ f.endTime = t
            /\ \E s \in statuses' :
                  /\ s.userId = u /\ s.date = d
                  /\ s.hasLeft /\ s.leftAt = t /\ s.isFixed
                  /\ \A s2 \in statuses' :
                        (s2.userId = u /\ s2.date = d) => s2 = s
            /\ ~DailyStatus(ledger', statuses', u, d).needsFix
    ]_vars

\* on 1970-01-02 the day 1970-01-01, on which the user began at 09:00 and
\* never left, was fixed with the leave time 18:00: the entry is closed at
\* 18:00 and the record says fixed
C28_Witness ==
    /\ resp.op = "fix" /\ resp.status = 200
    /\ resp.date = 0 /\ resp.leftAt = 9 * HourMs /\ clock = 24 * HourMs
    /\ \E e \in ledger : /\ e.userId = resp.user /\ e.startTime = 0
                          /\ e.endTime = resp.leftAt /\ e.duration = 9 * 3600
    /\ \E s \in statuses : /\ s.userId = resp.user /\ s.date = 0
                            /\ s.hasLeft /\ s.leftAt = resp.leftAt /\ s.isFixed
    /\ Cardinality(statuses) = 1
    /\ ~DailyStatus(ledger, statuses, resp.user, 0).needsFix

\* C29: a fix by the user or an admin with a leave time that is not after
\* the start of the latest activity of the target date fails with
\* InvalidTime and writes nothing: the attendance records and the ledger,
\* open entries included, stay as they are.
C29_FixInvalidTime ==
    [][\A a \in Users, u \in Users, d \in AttendDates, t \in AttendInstants :
         (/\ resp'.op = "fix" /\ resp'.user = u /\ resp'.date = d /\ resp'.leftAt = t
          /\ FixDay(a, u, d, t)
          /\ a = u \/ Role(a) = "ADMIN"
          /\ \E e \in ledger :
                e.userId = u /\ WorkDate(e.startTime) = d /\ t <= e.startTime) =>
            /\ resp'.status = 400 /\ resp'.error = "InvalidTime"
            /\ statuses' = statuses
            /\ ledger' = ledger
    ]_vars

\* on 1970-01-02 a fix of 1970-01-01 with the leave time 18:00, the instant
\* at which the entry still open began, was refused and nothing was written
C29_Witness ==
    /\ resp.op = "fix" /\ resp.status = 400 /\ resp.error = "InvalidTime"
    /\ resp.date = 0 /\ resp.leftAt = 9 * HourMs /\ clock = 24 * HourMs
    /\ \E e \in OpenOf(ledger, resp.user) : e.startTime = resp.leftAt
    /\ statuses = {}

\* C30: under any interleaving of leave, resume and fix requests there is
\* at most one attendance record per user and date, and a record once
\* created is never removed: every step keeps every record, for the same
\* user and date.
C30_OneRecordPerDay ==
    /\ [](\A s \in statuses, s2 \in statuses :
            (s.userId = s2.userId /\ s.date = s2.date) => s = s2)
    /\ [][\A s \in statuses :
            \E s2 \in statuses' :
               s2.id = s.id /\ s2.userId = s.userId /\ s2.date = s.date]_vars

\* two requests found no record of the day; the first inserted it, the
\* insert of the second was refused by the unique index
C30_Witness ==
    /\ resp.op \in {"leave", "fix"} /\ resp.status = 500
    /\ Cardinality(statuses) = 1
    /\ \E s \in statuses : s.userId = resp.user /\ s.date = resp.date

\* C31 as the specification states it: a closed entry of the day with zero
\* elapsed time is left out of the timeline only when the day has other
\* entries; when it is the sole entry of the day it is shown.
C31_AsClaimed ==
    (resp.op = "history" /\ resp.status = 200) =>
        \A i \in 1..Len(resp.body) :
            (/\ resp.body[i].endTime # Null /\ resp.body[i].duration = 0
             /\ Today(resp.body[i].startTime) = Today(clock)
             /\ \A j \in 1..Len(TodayLogs(resp.body, clock)) :
                   TodayLogs(resp.body, clock)[j].id # resp.body[i].id)
            => Len(resp.body) > 1

\* C32 as the specification states it: in every state of the ledger, also
\* while requests of one user interleave, every closed entry has
\* endTime >= startTime and a duration of endTime - startTime in whole
\* seconds, which is at least 0.
C32_AsClaimed ==
    \A e \in ledger :
        e.endTime # Null =>
            /\ e.endTime >= e.startTime
            /\ e.duration >= 0
            /\ WholeSeconds(e.duration, e.endTime - e.startTime)

\* C33 as the specification states it: once an entry is closed no step of a
\* Switch or a Stop changes its endTime or its duration, also when the
\* requests of one user run concurrently.
C33_AsClaimed ==
    [][\A e \in ledger, f \in ledger' :
         (f.id = e.id /\ e.endTime # Null) =>
            (f.endTime = e.endTime /\ f.duration = e.duration)]_vars

\* C34 as the specification states it: when the user has an open entry that
\* started within the day, the history reports that entry, and only that
\* entry, as in progress (no end, no duration); a manual entry is never
\* reported as in progress. Stated for entries that start at pairwise
\* distinct instants, whose order in the history is determined.
C34_AsClaimed ==
    (/\ resp.op = "history" /\ resp.status = 200
     /\ \A e \in ledger, f \in ledger : e.startTime = f.startTime => e = f) =>
        /\ \A e \in OpenOf(ledger, resp.user) :
              e.startTime >= Today(clock) =>
                 \E i \in 1..Len(resp.body) :
                    /\ resp.body[i].id = e.id
                    /\ resp.body[i].endTime = Null /\ resp.body[i].duration = Null
        /\ \A i \in 1..Len(resp.body) :
              resp.body[i].endTime = Null =>
                 /\ ~resp.body[i].isManual
                 /\ resp.body[i] \in OpenOf(ledger, resp.user)

\* C35 as the specification states it: once a category is marked deleted, a
\* switch, a manual add and an edit that target it fail with "Category not
\* found" and create or change no entry.
C35_AsClaimed ==
    [][\A c \in CatIds :
         (/\ cats[c].isDeleted
          /\ \/ resp'.op = "switch" /\ Switch(LedgerUser, c)
             \/ resp'.op = "manual" /\ \E t \in Instants : ManualAdd(LedgerUser, c, t)
             \/ resp'.op = "edit" /\ \E id \in Ids(ledger) : Edit(LedgerUser, id, c)) =>
            /\ resp'.status = 404 /\ resp'.error = "Category not found"
            /\ ledger' = ledger
    ]_vars

\* the seconds of the buckets 0..n-1 of the answered query, added up
RECURSIVE SumBuckets(_)
SumBuckets(n) ==
    IF n = 0 THEN 0
    ELSE BucketSeconds(ledger, resp.req.targetIds, AnsweredRange, resp.req.zone, n - 1)
         + SumBuckets(n - 1)

\* the seconds of the categories of a set of names of the answered query,
\* added up
RECURSIVE SumNames(_)
SumNames(names) ==
    IF names = {} THEN 0
    ELSE LET n == CHOOSE n \in names : TRUE
         IN  CategorySeconds(ledger, resp.req.targetIds, AnsweredRange, n)
             + SumNames(names \ {n})

\* C36: for every answered statistics query, of a fixed mode or of
\* mode=custom, the seconds accumulated over all buckets equal the seconds
\* accumulated over all categories: every counted entry that starts inside
\* [rangeStart, rangeEnd] falls into one of the buckets.
C36_BucketsEqualCategories ==
    (resp.op = "stats" /\ resp.status = 200) =>
        /\ SumBuckets(AnsweredRange.bucketCount) =
              SumNames({CatName(e) : e \in ledger})
        /\ \A e \in CountedLogs(ledger, resp.req.targetIds, AnsweredRange) :
              BucketIndex(e, AnsweredRange, resp.req.zone) \in 0..(AnsweredRange.bucketCount - 1)

\* a query of a fixed mode counted 130 seconds of two categories, all of
\* them in its last bucket
C36_Witness ==
    /\ resp.op = "stats" /\ resp.status = 200 /\ resp.req.mode # "custom"
    /\ SumBuckets(AnsweredRange.bucketCount) = 130
    /\ BucketSeconds(ledger, resp.req.targetIds, AnsweredRange, resp.req.zone,
                     AnsweredRange.bucketCount - 1) = 130
    /\ Cardinality(DOMAIN resp.body.byCategory) = 2

\* a query of mode=custom counted seconds in a bucket that is not its first
C36_WitnessCustom ==
    /\ resp.op = "stats" /\ resp.status = 200 /\ resp.req.mode = "custom"
    /\ SumBuckets(AnsweredRange.bucketCount) > 0
    /\ BucketSeconds(ledger, resp.req.targetIds, AnsweredRange, resp.req.zone, 0) = 0

\* the entries added by hand; no operation of the day writes their end or
\* their duration again
ManualEntries(L) == {e \in L : e.isManual}

\* the answer to a statistics query counts nothing of the entries added by
\* hand: it is the answer the table without them gets
ManualCountsNothing ==
    \A p \in Conns :
        (resp'.op = "stats" /\ resp'.status = 200 /\ GetStats(p)) =>
            LET r == StatsRange(conn[p].mode, conn[p].start, conn[p].end, Wide(clock),
                                conn[p].zone)
            IN  /\ resp'.body = StatsBody(ledger \ ManualEntries(ledger), conn[p].targetIds,
                                          r, conn[p].zone)
                /\ \A e \in ManualEntries(ledger) :
                      /\ DurationSec(e) = 0
                      /\ e \notin CountedLogs(ledger, conn[p].targetIds, r)

\* C37 as the specification states it: an entry added by hand contributes
\* zero seconds to every bucket and every category of the statistics,
\* although the history gives it a positive effective duration whenever a
\* later entry exists.
C37_AsClaimed ==
    /\ []((resp.op = "history" /\ resp.status = 200) =>
            \A i \in 2..Len(resp.body) :
                (/\ resp.body[i].isManual
                 /\ resp.body[i - 1].startTime > resp.body[i].startTime) =>
                    resp.body[i].duration > 0)
    /\ [][ManualCountsNothing]_vars

\* C37: an entry added by hand contributes zero seconds to every bucket and
\* every category of the statistics, although the history gives it the time
\* up to the start of the next entry as effective duration, in whole
\* seconds, which is positive when the next entry starts at least one
\* second later; the statistics of a day can so be smaller than the sum of
\* the day's effective durations.
C37_ManualCountsNothing ==
    /\ []((resp.op = "history" /\ resp.status = 200) =>
            \A i \in 2..Len(resp.body) :
                resp.body[i].isManual =>
                    /\ resp.body[i].duration =
                          Seconds(resp.body[i - 1].startTime - resp.body[i].startTime)
                    /\ (resp.body[i - 1].startTime - resp.body[i].startTime >= MsPerSec) =>
                          resp.body[i].duration > 0)
    /\ [][ManualCountsNothing]_vars

\* the statistics of the day answered with no time at all in any bucket or
\* category while the ledger holds an entry added by hand and an entry that
\* starts a second later, between which the history counts one second
C37_Witness ==
    /\ resp.op = "stats" /\ resp.status = 200 /\ resp.req.mode = "day"
    /\ SumMinutes(resp.body.timeSeries) = 0
    /\ DOMAIN resp.body.byCategory = {}
    /\ \E e \in ManualEntries(ledger), f \in ledger :
          /\ e.userId = LedgerUser /\ f.userId = LedgerUser
          /\ f.startTime = e.startTime + MsPerSec
          /\ Reconstruct(<<e, f>>)[1].duration = 1

\* a list without its k-th element
DropAt(logs, k) ==
    [i \in 1..Len(logs) - 1 |-> IF i < k THEN logs[i] ELSE logs[i + 1]]

\* C38: the deletion of an entry removes that entry and changes the stored
\* fields of no other entry; in the history read afterwards the entry that
\* preceded the deleted one in the day's ordering ends at the startTime of
\* the next remaining entry, or, when the deleted entry was the last, keeps
\* its own stored end (no end when it is in progress).
C38_DeleteExtendsPredecessor ==
    [][\A id \in 1..MaxRows :
         (resp'.op = "delete" /\ resp'.status = 200 /\ Delete(LedgerUser, id)) =>
            /\ ledger' = {e \in ledger : e.id # id}
            /\ \A before \in OrderByStartTime(FindManyToday(ledger, LedgerUser, Today(clock))) :
                  \A k \in 2..Len(before) :
                     before[k].id = id =>
                        /\ DropAt(before, k) \in
                              OrderByStartTime(FindManyToday(ledger', LedgerUser, Today(clock)))
                        /\ Reconstruct(DropAt(before, k))[k - 1].id = before[k - 1].id
                        /\ Reconstruct(DropAt(before, k))[k - 1].endTime =
                              IF k < Len(before) THEN before[k + 1].startTime
                              ELSE before[k - 1].endTime
    ]_vars

\* the second of three entries was deleted; the history read afterwards
\* ends the first entry, stored as closed at 500 ms, at the start of the
\* third entry, 1000 ms
C38_Witness ==
    /\ resp.op = "history" /\ resp.status = 200
    /\ nextId = 4 /\ Ids(ledger) = {1, 3}
    /\ \E e \in ledger : e.id = 1 /\ e.startTime = 0 /\ e.endTime = TickMs
    /\ Len(resp.body) = 2
    /\ resp.body[1].id = 3 /\ resp.body[1].startTime = 2 * TickMs
    /\ resp.body[2].id = 1 /\ resp.body[2].endTime = 2 * TickMs

\* C39 as the specification states it: isManual is fixed at creation, true
\* exactly for the entries a manual add creates; isEdited is false at
\* creation, true after a successful edit and never false again; and
\* isEdited becomes true only for an entry whose category was changed.
C39_AsClaimed ==
    [][/\ \A f \in ledger' :
            f.id \notin Ids(ledger) =>
               (~f.isEdited /\ (f.isManual <=> resp'.op = "manual"))
       /\ \A e \in ledger, f \in ledger' :
            f.id = e.id =>
               /\ f.isManual = e.isManual
               /\ e.isEdited => f.isEdited
               /\ (~e.isEdited /\ f.isEdited) => f.categoryId # e.categoryId
       /\ (resp'.op = "edit" /\ resp'.status = 200) =>
            \E f \in ledger' : f.id = resp'.id /\ f.isEdited
    ]_vars

\* C39: isManual is fixed at creation, true exactly for the entries a manual
\* add creates; isEdited is false at creation, true after a successful edit
\* and never false again, so every entry is live, manual, live and edited or
\* manual and edited; isEdited becomes true only by a successful edit of the
\* entry, which may name the category the entry already has.
C39_FlagsOfAnEntry ==
    [][/\ \A f \in ledger' :
            /\ f.isManual \in BOOLEAN /\ f.isEdited \in BOOLEAN
            /\ f.id \notin Ids(ledger) =>
                  (~f.isEdited /\ (f.isManual <=> resp'.op = "manual"))
       /\ \A e \in ledger, f \in ledger' :
            f.id = e.id =>
               /\ f.isManual = e.isManual
               /\ e.isEdited => f.isEdited
               /\ (~e.isEdited /\ f.isEdited) =>
                     (resp'.op = "edit" /\ resp'.status = 200 /\ resp'.id = e.id)
       /\ (resp'.op = "edit" /\ resp'.status = 200) =>
            \E f \in ledger' : f.id = resp'.id /\ f.isEdited
    ]_vars

\* an entry added by hand was edited: it is manual and edited, next to a
\* live entry that is neither
C39_Witness ==
    /\ resp.op = "edit" /\ resp.status = 200
    /\ \E e \in ledger : e.id = resp.id /\ e.isManual /\ e.isEdited
    /\ \E e \in ledger : ~e.isManual /\ ~e.isEdited

\* C40 as the specification states it: from a state with an ACTIVE user of
\* role ADMIN, after any sequence and any interleaving of accepted role
\* changes and status changes, at least one user is ADMIN and ACTIVE.
C40_AsClaimed ==
    \E u \in Users : users[u].role = "ADMIN" /\ users[u].status = "ACTIVE"

====
